---- MODULE Spec2Model ----
(***************************************************************************)
(* Control plane of the tiered video-generation API (luma_api): the job    *)
(* service, the weighted-fair priority queue with its shared-store and     *)
(* in-process backends, the worker loop and the sliding-window rate        *)
(* limiter.  Every handler is cut at its suspension points (the awaits on  *)
(* shared-store calls, on the generator and on sleep); what lies between   *)
(* two suspension points is one atomic step of the event loop.             *)
(***************************************************************************)
EXTENDS Integers, Sequences, FiniteSets, TLC

\* ------------------------------------------------------------------ bounds
MaxJobs == 2          \* jobs created when every user is a client
MaxLowTierJobs == 3   \* jobs created when only the two lowest tiers are clients
MaxDevJobs == 4       \* jobs created when only the developer is a client
MaxSharedJobs == 1    \* jobs created when shared-store calls can raise
MaxRequests == 12     \* rate-limited requests admitted or on their way
MaxInflight == 2      \* create_job calls suspended at the same time
MaxCancels == 1       \* cancel_job calls suspended at the same time
MaxQuotaJobs == 2     \* jobs created when the daily counts vary
MaxReads == 1         \* get_current_usage calls suspended at the same time
MaxQueueJobs == 3     \* job ids given to enqueue of an in-process priority queue
MaxSharedQueueJobs == 2 \* job ids given to enqueue of a priority queue on the store
MaxQueueCalls == 2    \* enqueue and remove calls suspended at the same time
MaxArrivalIds == 3    \* job ids in use at the same time when jobs keep arriving
MaxBackendEntries == 3 \* entries of the in-process queue when both backends get the same calls
MaxBackendChecks == 11 \* entries of the in-process rate-limit log when both backends get the same calls
MaxQueueTime == 1       \* the latest instant, in seconds, of a call on the priority queue
MaxDispatched == 31     \* requests the middleware lets through to one path
MaxEarlierRequests == 28 \* requests let through to one path before the first state
ClockResolution == 2    \* ticks of the clock in a second, where the clock is finer than a second
MaxSuspended == 1       \* create_job calls suspended at the same time when the daily count is at its quota
MaxCancelled == 1       \* cancel_job calls that return a job when the daily count is at its quota
MaxBatchItems == 3      \* items of a batch request
MaxBatchJobs == 3       \* jobs created when batch requests are made

\* Python's None for optional integers, timestamps and job ids
None == -1

\* ------------------------------------------------------------- static data
Tiers == {"free", "developer", "pro", "enterprise"}

TIER_CONFIGS ==
  [t \in Tiers |->
     CASE t = "free" ->
            [rate_limit_per_minute |-> 10, daily_quota |-> 100,
             max_concurrent_jobs |-> 0, max_video_duration |-> 0,
             queue_priority_weight |-> 0, can_generate |-> FALSE,
             can_batch_generate |-> FALSE]
       [] t = "developer" ->
            [rate_limit_per_minute |-> 30, daily_quota |-> 500,
             max_concurrent_jobs |-> 3, max_video_duration |-> 30,
             queue_priority_weight |-> 1, can_generate |-> TRUE,
             can_batch_generate |-> FALSE]
       [] t = "pro" ->
            [rate_limit_per_minute |-> 100, daily_quota |-> 5000,
             max_concurrent_jobs |-> 10, max_video_duration |-> 120,
             queue_priority_weight |-> 5, can_generate |-> TRUE,
             can_batch_generate |-> TRUE]
       [] OTHER ->
            [rate_limit_per_minute |-> 1000, daily_quota |-> -1,
             max_concurrent_jobs |-> 100, max_video_duration |-> 300,
             queue_priority_weight |-> 10, can_generate |-> TRUE,
             can_batch_generate |-> TRUE]]

get_tier_config(tier) == TIER_CONFIGS[tier]

\* user id |-> tier of the four static users
MOCK_USERS ==
  [u \in {"user_free_001", "user_dev_001", "user_pro_001", "user_ent_001"} |->
     CASE u = "user_free_001" -> "free"
       [] u = "user_dev_001" -> "developer"
       [] u = "user_pro_001" -> "pro"
       [] OTHER -> "enterprise"]

Users == DOMAIN MOCK_USERS

JobIds == 1 .. MaxJobs

\* the clients of the low-tier specification and the ids of their jobs
LowTierUsers == {"user_free_001", "user_dev_001"}
LowTierJobIds == 1 .. MaxLowTierJobs
DevJobIds == 1 .. MaxDevJobs
QuotaUsers == {"user_dev_001", "user_ent_001"}
QuotaJobIds == 1 .. MaxQuotaJobs
SharedJobIds == 1 .. MaxSharedJobs

\* GenerationRequest.duration values submitted by the clients
Durations == {30, 120, 121}

JobStatus ==
  {"pending", "queued", "processing", "completed", "failed", "cancelled", "expired"}

QueuePriority == {"critical", "high", "normal"}

JOB_TRANSITIONS ==
  [s \in JobStatus |->
     CASE s = "pending" -> {"queued", "cancelled"}
       [] s = "queued" -> {"processing", "cancelled", "expired"}
       [] s = "processing" -> {"completed", "failed"}
       [] OTHER -> {}]

can_transition(from_status, to_status) == to_status \in JOB_TRANSITIONS[from_status]

TIER_PRIORITY_MAP ==
  [t \in {"enterprise", "pro", "developer"} |->
     CASE t = "enterprise" -> "critical"
       [] t = "pro" -> "high"
       [] OTHER -> "normal"]

\* a mapping that sends every tier to NORMAL
get_priority_for_tier_normal(tier) == "normal"

get_priority_for_tier(tier) ==
  IF tier \in DOMAIN TIER_PRIORITY_MAP THEN TIER_PRIORITY_MAP[tier] ELSE "normal"

\* the fixed walk order of dequeue
priorities == <<"critical", "high", "normal">>

WEIGHTS == [p \in QueuePriority |->
              CASE p = "critical" -> 10 [] p = "high" -> 5 [] OTHER -> 1]

total_weight == WEIGHTS["critical"] + WEIGHTS["high"] + WEIGHTS["normal"]

ESTIMATED_PROCESSING_TIME == 30

\* ------------------------------------------------- sorted sets and queues
\* A queue entry is [id, score].  A shared-store sorted set is kept ordered
\* by (score, member); the in-process list by score, ties in insertion order.

ZLess(a, b) == a.score < b.score \/ (a.score = b.score /\ a.id < b.id)

ZREM(z, member) == SelectSeq(z, LAMBDA e : e.id # member)

ZADD(z, member, score) ==
  LET e == [id |-> member, score |-> score]
      rest == ZREM(z, member)
  IN SelectSeq(rest, LAMBDA x : ZLess(x, e)) \o <<e>>
       \o SelectSeq(rest, LAMBDA x : ~ZLess(x, e))

\* 0-indexed rank of a member, None when absent
ZRANK(z, member) ==
  IF \E i \in 1 .. Len(z) : z[i].id = member
    THEN (CHOOSE i \in 1 .. Len(z) : z[i].id = member) - 1
    ELSE None

ZCARD(z) == Len(z)

\* the three scripts over one sorted set: the new set and the value returned
QUEUE_ENQUEUE_SCRIPT(z, job_id, score) ==
  LET z2 == ZADD(z, job_id, score)
  IN [set |-> z2, ret |-> ZRANK(z2, job_id) + 1]

QUEUE_DEQUEUE_SCRIPT(z) ==
  IF Len(z) = 0 THEN [set |-> z, ret |-> None]
  ELSE [set |-> ZREM(z, z[1].id), ret |-> z[1].id]

QUEUE_POSITION_SCRIPT(z, job_id) ==
  IF ZRANK(z, job_id) = None THEN -1 ELSE ZRANK(z, job_id) + 1

\* list.sort(key=score): a stable sort, by insertion
RECURSIVE sort_by_score(_)
sort_by_score(q) ==
  IF Len(q) <= 1 THEN q
  ELSE LET front == sort_by_score(SubSeq(q, 1, Len(q) - 1))
           e == q[Len(q)]
       IN SelectSeq(front, LAMBDA x : x.score <= e.score) \o <<e>>
            \o SelectSeq(front, LAMBDA x : x.score > e.score)

_enqueue_local(q, job_id, score) ==
  LET q2 == sort_by_score(Append(q, [id |-> job_id, score |-> score]))
  IN [queue |-> q2, ret |-> Len(q2)]

\* the local fallback of remove: the first entry of that id, if any
remove_local(q, job_id) ==
  IF \E i \in 1 .. Len(q) : q[i].id = job_id
    THEN LET i == CHOOSE k \in 1 .. Len(q) :
                    q[k].id = job_id /\ \A m \in 1 .. k - 1 : q[m].id # job_id
         IN [queue |-> SubSeq(q, 1, i - 1) \o SubSeq(q, i + 1, Len(q)), ret |-> TRUE]
    ELSE [queue |-> q, ret |-> FALSE]

\* the local fallback of get_position
position_local(q, job_id) ==
  IF \E i \in 1 .. Len(q) : q[i].id = job_id
    THEN CHOOSE k \in 1 .. Len(q) :
           q[k].id = job_id /\ \A m \in 1 .. k - 1 : q[m].id # job_id
    ELSE None

\* int(x * 0.5), int(x * 0.3), int(x * 0.3 * 0.5) for a length x >= 0
HalfOf(x) == x \div 2
ThreeTenthsOf(x) == (3 * x) \div 10
FifteenHundredthsOf(x) == (15 * x) \div 100

_estimate_wait(position, priority, lengths) ==
  LET jobs_ahead ==
        IF priority = "normal"
          THEN (position - 1) + ThreeTenthsOf(lengths["critical"])
                 + FifteenHundredthsOf(lengths["high"])
        ELSE IF priority = "high"
          THEN (position - 1) + HalfOf(lengths["critical"])
        ELSE position - 1
  IN jobs_ahead * ESTIMATED_PROCESSING_TIME

\* the walk that selects the first bucket whatever the draw
select_bucket_first(choice, i, cumulative) ==
  IF i > Len(priorities) THEN None ELSE i

\* the walk with every bucket given the same share of the draws
RECURSIVE select_bucket_equal_shares(_, _, _)
select_bucket_equal_shares(choice, i, cumulative) ==
  LET share == (total_weight + Len(priorities) - 1) \div Len(priorities)
  IN IF i > Len(priorities) THEN None
     ELSE IF choice <= cumulative + share THEN i
     ELSE select_bucket_equal_shares(choice, i + 1, cumulative + share)

\* the bucket selected by a draw: walk priorities accumulating weight
RECURSIVE select_bucket(_, _, _)
select_bucket(choice, i, cumulative) ==
  IF i > Len(priorities) THEN None
  ELSE IF choice <= cumulative + WEIGHTS[priorities[i]] THEN i
  ELSE select_bucket(choice, i + 1, cumulative + WEIGHTS[priorities[i]])

\* ------------------------------------------------------------------- state
VARIABLES
  queue_redis,    \* PriorityQueue._redis is set: the queue talks to the shared store
  jobs,           \* StorageManager.jobs: job id |-> Job, for the ids stored
  videos,         \* StorageManager.videos: the set of stored videos
  usage,          \* UsageCounter: [daily, monthly], each user |-> count of today
  redis_queues,   \* the sorted sets queue:critical, queue:high, queue:normal
  local_queues,   \* PriorityQueue._local_queues
  now,            \* time.time(), in clock units
  creating,       \* job id |-> the create_job call suspended on it
  cancelling,     \* slot |-> a cancel_job call suspended in queue.remove
  worker,         \* JobWorker._run: where the loop is and what it holds
  resp,           \* the response the latest step returned to a client, if any
  cancel_returned,\* history: the jobs for which cancel_job has returned normally
  pq_enqueued,    \* history: job id |-> the priority and score of its enqueue call
                  \* and whether a remove call has taken it out of its queue
  pq_calls,       \* slot |-> an enqueue or remove call suspended on the store
  pq_ret,         \* what the latest step returned from enqueue or remove, if anything
  rl_redis,       \* RateLimitService._redis is set
  rate_limit,     \* the sorted sets rate_limit:{user}:{endpoint}: scores in order
  _local_counts,  \* RateLimitService._local_counts: key |-> list of timestamps
  rl_calls,       \* slot |-> a _check_redis call whose script has not run yet
  rl_result,      \* the RateLimitResult the latest step returned from a check, if any
  admitted,       \* history: key |-> the timestamps of the calls allowed, in order
  rl_reads,       \* slot |-> a get_current_usage call suspended on the store
  rl_usage        \* the RateLimitResult the latest step returned from get_current_usage

\* the state of the rate limiter
read_vars == <<rl_reads, rl_usage>>
rl_vars == <<rl_redis, rate_limit, _local_counts, rl_calls, rl_result, admitted,
             read_vars>>

\* the state of the job service, the queue and the worker
\* the calls made on the priority queue itself
pq_vars == <<pq_enqueued, pq_calls, pq_ret>>

job_vars == <<queue_redis, jobs, videos, usage, redis_queues, local_queues,
              creating, cancelling, worker, resp, cancel_returned, pq_vars>>

vars == <<job_vars, now, rl_vars>>

NoResp == [op |-> "none", user |-> "", job |-> None, duration |-> None,
           result |-> "", detail |-> ""]

Response(op, user, job, duration, result, detail) ==
  [op |-> op, user |-> user, job |-> job, duration |-> duration,
   result |-> result, detail |-> detail]

NoCreate == [pc |-> "none", score |-> None, position |-> None]

\* the users and paths of the rate-limited requests, and their keys
RLUsers == {"user_free_001", "user_dev_001"}
Endpoints == {"/v1/jobs"}
\* a key that leaves out the user
_get_key_of_endpoint(user_id, endpoint) == <<"user_free_001", endpoint>>

_get_key(user_id, endpoint) == <<user_id, endpoint>>
Keys == {_get_key(u, e) : u \in RLUsers, e \in Endpoints \cup {"/v1/generate"}}

window_seconds == 60

\* the instants, in seconds, at which requests arrive
Instants == {1, 60, 61}

NoCall == [key |-> << >>, now |-> None, limit |-> None]
NoResult == [allowed |-> FALSE, limit |-> None, remaining |-> None,
             reset_at |-> None, window_seconds |-> None]
NoQueueCall == [pc |-> "none", job |-> None, priority |-> "", score |-> None,
                position |-> None]
NoQueueRet == [op |-> "none", job |-> None, priority |-> "", position |-> None,
               estimated_wait_seconds |-> None, removed |-> FALSE]
NoRead == [key |-> << >>, now |-> None, limit |-> None, pc |-> "none"]
NoCancel == [pc |-> "none", job |-> None, removed |-> FALSE]
IdleWorker == [pc |-> "poll", job |-> None, idx |-> None, snap |-> {}]

\* daily counter values the model can start with: a fresh day; for the
\* developer the last admission before the tier's daily quota; for the
\* enterprise user, whose tier has no quota, a count as large as the largest
\* quota of any tier
InitialDaily ==
  [u \in Users |->
     CASE u = "user_dev_001" -> {0, TIER_CONFIGS["developer"].daily_quota - 1}
       [] u = "user_ent_001" -> {0, TIER_CONFIGS["pro"].daily_quota}
       [] OTHER -> {0}]

Init ==
  /\ queue_redis \in BOOLEAN
  /\ jobs = [j \in {} |-> NoResp]
  /\ videos = {}
  /\ \E d \in [Users -> UNION {InitialDaily[u] : u \in Users}] :
       /\ \A u \in Users : d[u] \in InitialDaily[u]
       /\ usage = [daily |-> d, monthly |-> d]
  /\ redis_queues = [p \in QueuePriority |-> << >>]
  /\ local_queues = [p \in QueuePriority |-> << >>]
  /\ now = 0
  /\ creating = [j \in {} |-> NoCreate]
  /\ cancelling = [c \in 1 .. MaxCancels |-> NoCancel]
  /\ worker = IdleWorker
  /\ resp = NoResp
  /\ cancel_returned = {}
  /\ pq_enqueued = [j \in {} |-> ""]
  /\ pq_calls = [c \in 1 .. MaxQueueCalls |-> NoQueueCall]
  /\ pq_ret = NoQueueRet
  /\ rl_redis \in BOOLEAN
  /\ rate_limit = [k \in Keys |-> << >>]
  /\ _local_counts = [k \in Keys |-> << >>]
  /\ rl_calls = [c \in 1 .. MaxInflight |-> NoCall]
  /\ rl_result = NoResult
  /\ admitted = [k \in Keys |-> << >>]
  /\ rl_reads = [c \in 1 .. MaxReads |-> NoRead]
  /\ rl_usage = NoResult

\* ------------------------------------------------------------ job service
TerminalStatuses == {"completed", "failed", "cancelled", "expired"}

_count_active_jobs(user_id) ==
  Cardinality({j \in DOMAIN jobs :
                 jobs[j].user_id = user_id /\ jobs[j].status \notin TerminalStatuses})

\* the admission checks with the concurrency check moved before the duration
\* check
admission_concurrency_first(user, duration) ==
  LET tier_config == get_tier_config(MOCK_USERS[user])
  IN IF ~tier_config.can_generate
       THEN [result |-> "InsufficientTierError", detail |-> "developer"]
     ELSE IF _count_active_jobs(user) >= tier_config.max_concurrent_jobs
       THEN [result |-> "QuotaExceededError", detail |-> "concurrent_jobs"]
     ELSE IF duration > tier_config.max_video_duration
       THEN [result |-> "InsufficientTierError",
             detail |-> IF duration <= 120 THEN "pro" ELSE "enterprise"]
     ELSE IF tier_config.daily_quota > 0
               /\ usage.daily[user] >= tier_config.daily_quota
       THEN [result |-> "QuotaExceededError", detail |-> "daily"]
     ELSE [result |-> "ok", detail |-> ""]

\* the admission checks without the can_generate check
admission_without_can_generate(user, duration) ==
  LET tier_config == get_tier_config(MOCK_USERS[user])
  IN IF duration > tier_config.max_video_duration
       THEN [result |-> "InsufficientTierError",
             detail |-> IF duration <= 120 THEN "pro" ELSE "enterprise"]
     ELSE IF tier_config.daily_quota > 0
               /\ usage.daily[user] >= tier_config.daily_quota
       THEN [result |-> "QuotaExceededError", detail |-> "daily"]
     ELSE IF _count_active_jobs(user) >= tier_config.max_concurrent_jobs
       THEN [result |-> "QuotaExceededError", detail |-> "concurrent_jobs"]
     ELSE [result |-> "ok", detail |-> ""]

\* the admission checks without the duration check
admission_without_duration(user, duration) ==
  LET tier_config == get_tier_config(MOCK_USERS[user])
  IN IF ~tier_config.can_generate
       THEN [result |-> "InsufficientTierError", detail |-> "developer"]
     ELSE IF tier_config.daily_quota > 0
               /\ usage.daily[user] >= tier_config.daily_quota
       THEN [result |-> "QuotaExceededError", detail |-> "daily"]
     ELSE IF _count_active_jobs(user) >= tier_config.max_concurrent_jobs
       THEN [result |-> "QuotaExceededError", detail |-> "concurrent_jobs"]
     ELSE [result |-> "ok", detail |-> ""]

\* the admission checks with the daily quota compared whatever its sign
admission_quota_unguarded(user, duration) ==
  LET tier_config == get_tier_config(MOCK_USERS[user])
  IN IF ~tier_config.can_generate
       THEN [result |-> "InsufficientTierError", detail |-> "developer"]
     ELSE IF duration > tier_config.max_video_duration
       THEN [result |-> "InsufficientTierError",
             detail |-> IF duration <= 120 THEN "pro" ELSE "enterprise"]
     ELSE IF usage.daily[user] >= tier_config.daily_quota
       THEN [result |-> "QuotaExceededError", detail |-> "daily"]
     ELSE IF _count_active_jobs(user) >= tier_config.max_concurrent_jobs
       THEN [result |-> "QuotaExceededError", detail |-> "concurrent_jobs"]
     ELSE [result |-> "ok", detail |-> ""]

\* the admission checks of create_job, in their order: "ok" or the error raised
admission(user, duration) ==
  LET tier == MOCK_USERS[user]
      tier_config == get_tier_config(tier)
      daily_usage == usage.daily[user]
      active_jobs == _count_active_jobs(user)
  IN IF ~tier_config.can_generate
       THEN [result |-> "InsufficientTierError", detail |-> "developer"]
     ELSE IF duration > tier_config.max_video_duration
       THEN [result |-> "InsufficientTierError",
             detail |-> IF duration <= 120 THEN "pro" ELSE "enterprise"]
     ELSE IF tier_config.daily_quota > 0 /\ daily_usage >= tier_config.daily_quota
       THEN [result |-> "QuotaExceededError", detail |-> "daily"]
     ELSE IF active_jobs >= tier_config.max_concurrent_jobs
       THEN [result |-> "QuotaExceededError", detail |-> "concurrent_jobs"]
     ELSE [result |-> "ok", detail |-> ""]

NewJob(user, duration) ==
  [user_id |-> user, status |-> "pending",
   priority |-> get_priority_for_tier(MOCK_USERS[user]),
   duration |-> duration, queue_position |-> None,
   estimated_wait_seconds |-> None, progress |-> None, queued_at |-> None,
   started_at |-> None, completed_at |-> None, video_id |-> None, error |-> "",
   retry_count |-> 0]

\* get_queue_lengths: zcard of the three sets, the local lengths when the
\* queue has no shared store or the call raises
get_queue_lengths(fails) ==
  IF queue_redis /\ ~fails
    THEN [p \in QueuePriority |-> ZCARD(redis_queues[p])]
    ELSE [p \in QueuePriority |-> Len(local_queues[p])]

\* the write-back that leaves out the position
QueuedJob_without_position(job, position, lengths) ==
  [job EXCEPT !.status = "queued", !.queued_at = now,
              !.estimated_wait_seconds =
                 _estimate_wait(position, job.priority, lengths)]

\* what create_job does once the enqueue has returned a position: the wait
\* estimate from the queue lengths, then the job is written back as QUEUED
QueuedJob(job, position, lengths) ==
  [job EXCEPT !.status = "queued", !.queued_at = now,
              !.queue_position = position,
              !.estimated_wait_seconds =
                 _estimate_wait(position, job.priority, lengths)]

Inflight == DOMAIN creating

\* uuid4: an id no stored job has; ids are handed out in order
fresh_job_id == Cardinality(DOMAIN jobs) + 1

\* f without the key k
Without(f, k) == [x \in DOMAIN f \ {k} |-> f[x]]

\* POST /v1/generate: create_job up to its first suspension point.  Without a
\* shared store nothing suspends and the whole call is this one step.
create_job(user, duration, ids) ==
  LET adm == admission(user, duration)
  IN IF adm.result # "ok"
       THEN /\ resp' = Response("create", user, None, duration, adm.result, adm.detail)
            /\ UNCHANGED <<rl_vars, pq_vars, cancel_returned, queue_redis, jobs, videos, usage, redis_queues,
                           local_queues, now, creating, cancelling, worker>>
       ELSE \E job_id \in {fresh_job_id} \cap ids :
              LET job == NewJob(user, duration)
              IN IF queue_redis
                   THEN /\ Cardinality(Inflight) < MaxInflight
                        /\ jobs' = (job_id :> job) @@ jobs
                        /\ creating' = (job_id :> [pc |-> "enqueue", score |-> now,
                                                    position |-> None]) @@ creating
                        /\ resp' = NoResp
                        /\ UNCHANGED <<rl_vars, pq_vars, cancel_returned, queue_redis, videos, usage, redis_queues,
                                       local_queues, now, cancelling, worker>>
                   ELSE LET e == _enqueue_local(local_queues[job.priority], job_id, now)
                            lq == [local_queues EXCEPT ![job.priority] = e.queue]
                            lengths == [p \in QueuePriority |-> Len(lq[p])]
                        IN /\ local_queues' = lq
                           /\ jobs' = (job_id :> QueuedJob(job, e.ret, lengths)) @@ jobs
                           /\ resp' = Response("create", user, job_id, duration, "ok", "")
                           /\ UNCHANGED <<rl_vars, pq_vars, cancel_returned, queue_redis, videos, usage, redis_queues,
                                          now, creating, cancelling, worker>>

\* the enqueue script runs in the shared store while create_job is suspended;
\* when the call raises, _enqueue_local takes the job instead
create_job_enqueued(job_id, fails) ==
  /\ job_id \in DOMAIN creating
  /\ creating[job_id].pc = "enqueue"
  /\ LET p == jobs[job_id].priority
         r == QUEUE_ENQUEUE_SCRIPT(redis_queues[p], job_id, creating[job_id].score)
         e == _enqueue_local(local_queues[p], job_id, creating[job_id].score)
     IN /\ redis_queues' = IF fails THEN redis_queues
                           ELSE [redis_queues EXCEPT ![p] = r.set]
        /\ local_queues' = IF fails THEN [local_queues EXCEPT ![p] = e.queue]
                           ELSE local_queues
        /\ creating' = [creating EXCEPT ![job_id] =
                          [pc |-> "estimate", score |-> creating[job_id].score,
                           position |-> IF fails THEN e.ret ELSE r.ret]]
  /\ resp' = NoResp
  /\ UNCHANGED <<rl_vars, pq_vars, cancel_returned, queue_redis, jobs, videos, usage, now, cancelling, worker>>

\* create_job resumes with the position and the queue lengths and writes the
\* job back as QUEUED, whatever its status has become meanwhile
create_job_finish(job_id, fails) ==
  /\ job_id \in DOMAIN creating
  /\ creating[job_id].pc = "estimate"
  /\ jobs' = [jobs EXCEPT ![job_id] =
                QueuedJob(jobs[job_id], creating[job_id].position,
                          get_queue_lengths(fails))]
  /\ creating' = Without(creating, job_id)
  /\ resp' = Response("create", jobs[job_id].user_id, job_id,
                      jobs[job_id].duration, "ok", "")
  /\ UNCHANGED <<rl_vars, pq_vars, cancel_returned, queue_redis, videos, usage, redis_queues, local_queues, now,
                 cancelling, worker>>

\* get_job without the comparison of job.user_id with the caller
get_job_any_caller(job_id, user) ==
  IF job_id \notin DOMAIN jobs THEN "JobNotFoundError" ELSE "ok"

\* get_job: the job, or the error raised (not found is checked first)
get_job(job_id, user) ==
  IF job_id \notin DOMAIN jobs THEN "JobNotFoundError"
  ELSE IF jobs[job_id].user_id # user THEN "PermissionDeniedError"
  ELSE "ok"

\* list_jobs: the ids of the jobs listed for a user (status "" is no filter);
\* a page holds every job of the model
list_jobs(user, status) ==
  {j \in DOMAIN jobs :
     /\ jobs[j].user_id = user
     /\ (status # "" => jobs[j].status = status)}

CancelledJob(job) == [job EXCEPT !.status = "cancelled", !.completed_at = now]

\* DELETE /v1/jobs/{id}: cancel_job up to its first suspension point.  A job
\* that is not QUEUED, or a queue without a shared store, suspends nowhere.
cancel_job(job_id, user) ==
  LET found == get_job(job_id, user)
  IN IF found # "ok"
       THEN /\ resp' = Response("cancel", user, job_id, None, found, "")
            /\ UNCHANGED <<rl_vars, pq_vars, cancel_returned, queue_redis, jobs, videos, usage, redis_queues,
                           local_queues, now, creating, cancelling, worker>>
     ELSE IF ~can_transition(jobs[job_id].status, "cancelled")
       THEN /\ resp' = Response("cancel", user, job_id, None, "JobCancelledError",
                                jobs[job_id].status)
            /\ UNCHANGED <<rl_vars, pq_vars, cancel_returned, queue_redis, jobs, videos, usage, redis_queues,
                           local_queues, now, creating, cancelling, worker>>
     ELSE IF jobs[job_id].status = "queued" /\ queue_redis
       THEN \E c \in 1 .. MaxCancels :
              /\ cancelling[c].pc = "none"
              /\ \A k \in 1 .. c - 1 : cancelling[k].pc # "none"
              /\ cancelling' = [cancelling EXCEPT ![c] =
                                  [pc |-> "remove", job |-> job_id, removed |-> FALSE]]
              /\ resp' = NoResp
              /\ UNCHANGED <<rl_vars, pq_vars, cancel_returned, queue_redis, jobs, videos, usage, redis_queues,
                             local_queues, now, creating, worker>>
     ELSE /\ local_queues' =
               IF jobs[job_id].status = "queued"
                 THEN [local_queues EXCEPT ![jobs[job_id].priority] =
                         remove_local(@, job_id).queue]
                 ELSE local_queues
          /\ jobs' = [jobs EXCEPT ![job_id] = CancelledJob(@)]
          /\ resp' = Response("cancel", user, job_id, None, "ok", "")
          /\ cancel_returned' = cancel_returned \cup {job_id}
          /\ UNCHANGED <<rl_vars, pq_vars, queue_redis, videos, usage, redis_queues, now,
                         creating, cancelling, worker>>

\* ZREM runs in the shared store while cancel_job is suspended.  When the call
\* raises, cancel_job resumes at once: remove falls back to the local list and
\* the job is written back as CANCELLED without another suspension.
cancel_job_removed(c, fails) ==
  /\ cancelling[c].pc = "remove"
  /\ LET job_id == cancelling[c].job
         p == jobs[job_id].priority
     IN IF fails
          THEN /\ local_queues' = [local_queues EXCEPT ![p] = remove_local(@, job_id).queue]
               /\ jobs' = [jobs EXCEPT ![job_id] = CancelledJob(@)]
               /\ resp' = Response("cancel", jobs[job_id].user_id, job_id, None, "ok", "")
               /\ cancel_returned' = cancel_returned \cup {job_id}
               /\ cancelling' = [cancelling EXCEPT ![c] = NoCancel]
               /\ UNCHANGED redis_queues
          ELSE /\ redis_queues' = [redis_queues EXCEPT ![p] = ZREM(@, job_id)]
               /\ cancelling' = [cancelling EXCEPT ![c] =
                                   [pc |-> "resume", job |-> job_id,
                                    removed |-> ZRANK(redis_queues[p], job_id) # None]]
               /\ resp' = NoResp
               /\ UNCHANGED <<jobs, local_queues, cancel_returned>>
  /\ UNCHANGED <<rl_vars, pq_vars, queue_redis, videos, usage, now, creating, worker>>

\* cancel_job resumes after ZREM and writes the job back as CANCELLED,
\* whatever its status has become meanwhile
cancel_job_finish(c) ==
  /\ cancelling[c].pc = "resume"
  /\ LET job_id == cancelling[c].job
     IN /\ jobs' = [jobs EXCEPT ![job_id] = CancelledJob(@)]
        /\ resp' = Response("cancel", jobs[job_id].user_id, job_id, None, "ok", "")
        /\ cancel_returned' = cancel_returned \cup {job_id}
  /\ cancelling' = [cancelling EXCEPT ![c] = NoCancel]
  /\ UNCHANGED <<rl_vars, pq_vars, queue_redis, videos, usage, redis_queues, local_queues, now,
                 creating, worker>>

\* ------------------------------------------------------------ worker loop
AllQueued ==
  {j \in DOMAIN jobs : \E p \in QueuePriority :
     \/ \E i \in 1 .. Len(redis_queues[p]) : redis_queues[p][i].id = j
     \/ \E i \in 1 .. Len(local_queues[p]) : local_queues[p][i].id = j}

\* _pop_from_redis_queue on the sets qs: the dequeue script, None when it raises
_pop_from_redis_queue(qs, priority, fails) ==
  IF fails THEN [queues |-> qs, ret |-> None]
  ELSE LET r == QUEUE_DEQUEUE_SCRIPT(qs[priority])
       IN [queues |-> [qs EXCEPT ![priority] = r.set], ret |-> r.ret]

\* _dequeue_local giving up when the selected bucket is empty
_dequeue_local_without_fallback(qs, choice) ==
  LET sel == priorities[select_bucket(choice, 1, 0)]
  IN IF Len(qs[sel]) = 0 THEN [queues |-> qs, ret |-> None]
     ELSE [queues |-> [qs EXCEPT ![sel] = Tail(@)], ret |-> qs[sel][1].id]

\* _dequeue_local: the selected bucket if it holds a job, else the first
\* non-empty bucket in the fixed order
_dequeue_local(qs, choice) ==
  LET sel == priorities[select_bucket(choice, 1, 0)]
      nonempty == {i \in 1 .. Len(priorities) : Len(qs[priorities[i]]) > 0}
      pick == IF Len(qs[sel]) > 0 THEN sel
              ELSE IF nonempty = {} THEN "none"
              ELSE priorities[CHOOSE i \in nonempty : \A k \in nonempty : i <= k]
  IN IF pick = "none" THEN [queues |-> qs, ret |-> None]
     ELSE [queues |-> [qs EXCEPT ![pick] = Tail(@)], ret |-> qs[pick][1].id]

\* _process_job that does not validate the transition to PROCESSING
_process_job_unvalidated(job_id) ==
  IF job_id \notin DOMAIN jobs
    THEN [jobs |-> jobs, worker |-> IdleWorker]
  ELSE [jobs |-> [jobs EXCEPT ![job_id].status = "processing",
                              ![job_id].started_at = now],
        worker |-> [pc |-> "generate", job |-> job_id, idx |-> None, snap |-> {}]]

\* _process_job that starts the generation and lets the loop go on at once
_process_job_detached(job_id) ==
  IF job_id \notin DOMAIN jobs
    THEN [jobs |-> jobs, worker |-> IdleWorker]
  ELSE IF ~can_transition(jobs[job_id].status, "processing")
    THEN [jobs |-> jobs, worker |-> IdleWorker]
  ELSE [jobs |-> [jobs EXCEPT ![job_id].status = "processing",
                              ![job_id].started_at = now],
        worker |-> IdleWorker]

\* _process_job up to the generator: the job store and the worker afterwards
_process_job(job_id) ==
  IF job_id \notin DOMAIN jobs
    THEN [jobs |-> jobs, worker |-> IdleWorker]
  ELSE IF ~can_transition(jobs[job_id].status, "processing")
    THEN [jobs |-> jobs, worker |-> IdleWorker]
  ELSE [jobs |-> [jobs EXCEPT ![job_id].status = "processing",
                              ![job_id].started_at = now],
        worker |-> [pc |-> "generate", job |-> job_id, idx |-> None, snap |-> {}]]

\* _run with a shared store: the draw is made and the selected set is popped
worker_dequeue(choice, fails) ==
  /\ worker.pc = "poll"
  /\ queue_redis
  /\ LET r == _pop_from_redis_queue(redis_queues,
                                    priorities[select_bucket(choice, 1, 0)], fails)
     IN /\ redis_queues' = r.queues
        /\ worker' = [pc |-> "pop", job |-> r.ret, idx |-> 0, snap |-> AllQueued]
  /\ resp' = NoResp
  /\ UNCHANGED <<rl_vars, pq_vars, cancel_returned, queue_redis, jobs, videos, usage, local_queues, now,
                 creating, cancelling>>

\* the pop came back empty: the walk over all sets in priority order goes on
worker_pop_next(fails) ==
  /\ worker.pc = "pop"
  /\ worker.job = None
  /\ worker.idx < Len(priorities)
  /\ LET r == _pop_from_redis_queue(redis_queues, priorities[worker.idx + 1], fails)
     IN /\ redis_queues' = r.queues
        /\ worker' = [worker EXCEPT !.job = r.ret, !.idx = worker.idx + 1]
  /\ resp' = NoResp
  /\ UNCHANGED <<rl_vars, pq_vars, cancel_returned, queue_redis, jobs, videos, usage, local_queues, now,
                 creating, cancelling>>

\* every pop came back empty: dequeue returns None and the loop sleeps
worker_dequeue_none ==
  /\ worker.pc = "pop"
  /\ worker.job = None
  /\ worker.idx = Len(priorities)
  /\ worker' = [worker EXCEPT !.pc = "sleep"]
  /\ resp' = NoResp
  /\ UNCHANGED <<rl_vars, pq_vars, cancel_returned, queue_redis, jobs, videos, usage, redis_queues, local_queues,
                 now, creating, cancelling>>

\* a pop returned a job id: the worker resumes and starts _process_job
worker_process ==
  /\ worker.pc = "pop"
  /\ worker.job # None
  /\ jobs' = _process_job(worker.job).jobs
  /\ worker' = _process_job(worker.job).worker
  /\ resp' = NoResp
  /\ UNCHANGED <<rl_vars, pq_vars, cancel_returned, queue_redis, videos, usage, redis_queues, local_queues, now,
                 creating, cancelling>>

\* _run without a shared store: dequeue and the start of _process_job do not
\* suspend, so they are one step
worker_dequeue_local(choice) ==
  /\ worker.pc = "poll"
  /\ ~queue_redis
  /\ LET r == _dequeue_local(local_queues, choice)
     IN /\ local_queues' = r.queues
        /\ IF r.ret = None
             THEN /\ worker' = [pc |-> "sleep", job |-> None, idx |-> None,
                                snap |-> AllQueued]
                  /\ jobs' = jobs
             ELSE /\ worker' = _process_job(r.ret).worker
                  /\ jobs' = _process_job(r.ret).jobs
  /\ resp' = NoResp
  /\ UNCHANGED <<rl_vars, pq_vars, cancel_returned, queue_redis, videos, usage, redis_queues, now, creating, cancelling>>

\* asyncio.sleep(worker_poll_interval) is over
worker_wake ==
  /\ worker.pc = "sleep"
  /\ worker' = IdleWorker
  /\ resp' = NoResp
  /\ UNCHANGED <<rl_vars, pq_vars, cancel_returned, queue_redis, jobs, videos, usage, redis_queues, local_queues,
                 now, creating, cancelling>>

\* StorageManager.record_usage: both counters of the user go up by one
record_usage(u, user_id) ==
  [daily |-> [u.daily EXCEPT ![user_id] = @ + 1],
   monthly |-> [u.monthly EXCEPT ![user_id] = @ + 1]]

\* the generator returns a video under a fresh id: it is stored, the job is
\* written back as COMPLETED and the usage is recorded
worker_generate_ok ==
  /\ worker.pc = "generate"
  /\ LET job_id == worker.job
         video == [id |-> Cardinality(videos) + 1, owner_id |-> jobs[job_id].user_id,
                   job_id |-> job_id, duration |-> jobs[job_id].duration]
     IN /\ videos' = videos \cup {video}
        /\ jobs' = [jobs EXCEPT ![job_id].status = "completed",
                                ![job_id].completed_at = now,
                                ![job_id].video_id = video.id,
                                ![job_id].progress = 1]
        /\ usage' = record_usage(usage, jobs[job_id].user_id)
  /\ worker' = IdleWorker
  /\ resp' = NoResp
  /\ UNCHANGED <<rl_vars, pq_vars, cancel_returned, queue_redis, redis_queues, local_queues, now, creating, cancelling>>

\* the failure handler that records usage for the failed job
worker_generate_fail_recording_usage(error) ==
  /\ worker.pc = "generate"
  /\ jobs' = [jobs EXCEPT ![worker.job].status = "failed",
                          ![worker.job].error = error,
                          ![worker.job].completed_at = now]
  /\ usage' = record_usage(usage, jobs[worker.job].user_id)
  /\ worker' = IdleWorker
  /\ resp' = NoResp
  /\ UNCHANGED <<rl_vars, pq_vars, cancel_returned, queue_redis, videos, redis_queues, local_queues, now,
                 creating, cancelling>>

\* the failure handler that puts the job back in its queue for another try
worker_generate_fail_retrying(error) ==
  /\ worker.pc = "generate"
  /\ jobs' = [jobs EXCEPT ![worker.job].status = "queued",
                          ![worker.job].error = error,
                          ![worker.job].started_at = None,
                          ![worker.job].retry_count = @ + 1]
  /\ IF queue_redis
       THEN /\ redis_queues' =
                 [redis_queues EXCEPT ![jobs[worker.job].priority] =
                    Append(@, [id |-> worker.job, score |-> now])]
            /\ UNCHANGED local_queues
       ELSE /\ local_queues' =
                 [local_queues EXCEPT ![jobs[worker.job].priority] =
                    Append(@, [id |-> worker.job, score |-> now])]
            /\ UNCHANGED redis_queues
  /\ worker' = IdleWorker
  /\ resp' = NoResp
  /\ UNCHANGED <<rl_vars, pq_vars, cancel_returned, queue_redis, videos, usage, now,
                 creating, cancelling>>

\* the generator raises (GenerationError, or anything else): the job is
\* written back as FAILED
worker_generate_fail(error) ==
  /\ worker.pc = "generate"
  /\ jobs' = [jobs EXCEPT ![worker.job].status = "failed",
                          ![worker.job].error = error,
                          ![worker.job].completed_at = now]
  /\ worker' = IdleWorker
  /\ resp' = NoResp
  /\ UNCHANGED <<rl_vars, pq_vars, cancel_returned, queue_redis, videos, usage, redis_queues, local_queues, now,
                 creating, cancelling>>

\* JobWorker.stop: _running is cleared and the task of _run is cancelled. The
\* task is suspended in an await of the loop (the sleep, a store call of
\* dequeue, a sleep of the generator); CancelledError is raised there, passes
\* the handlers of _process_job, which catch GenerationError and Exception
\* only, and ends the loop in _run. The job in flight is written no more.
stop ==
  /\ worker.pc # "stopped"
  /\ worker' = [IdleWorker EXCEPT !.pc = "stopped"]
  /\ resp' = NoResp
  /\ UNCHANGED <<rl_vars, pq_vars, cancel_returned, queue_redis, jobs, videos, usage, redis_queues, local_queues,
                 now, creating, cancelling>>

\* ---------------------------------------------- calls on the priority queue
\* QueuePosition as enqueue returns it
QueuePosition(job_id, priority, position, lengths) ==
  [op |-> "enqueue", job |-> job_id, priority |-> priority, position |-> position,
   estimated_wait_seconds |-> _estimate_wait(position, priority, lengths),
   removed |-> FALSE]

\* PriorityQueue.enqueue up to its first suspension point: the score is read
\* from the clock; without a store client the whole call is this one step.
enqueue(job_id, priority) ==
  /\ pq_enqueued' = (job_id :> [priority |-> priority, score |-> now,
                                 removed |-> FALSE]) @@ pq_enqueued
  /\ IF queue_redis
       THEN /\ \E c \in 1 .. MaxQueueCalls :
                 /\ pq_calls[c] = NoQueueCall
                 /\ \A k \in 1 .. c - 1 : pq_calls[k] # NoQueueCall
                 /\ pq_calls' = [pq_calls EXCEPT ![c] =
                                   [pc |-> "enqueue", job |-> job_id,
                                    priority |-> priority, score |-> now,
                                    position |-> None]]
            /\ pq_ret' = NoQueueRet
            /\ UNCHANGED local_queues
       ELSE LET e == _enqueue_local(local_queues[priority], job_id, now)
                lq == [local_queues EXCEPT ![priority] = e.queue]
            IN /\ local_queues' = lq
               /\ pq_ret' = QueuePosition(job_id, priority, e.ret,
                                          [p \in QueuePriority |-> Len(lq[p])])
               /\ UNCHANGED pq_calls
  /\ UNCHANGED <<rl_vars, queue_redis, jobs, videos, usage, redis_queues, now, creating,
                 cancelling, worker, resp, cancel_returned>>

\* _enqueue_redis: the enqueue script runs in the store; when the call raises,
\* _enqueue_local takes the job instead
_enqueue_redis(c, fails) ==
  /\ pq_calls[c].pc = "enqueue"
  /\ LET call == pq_calls[c]
         r == QUEUE_ENQUEUE_SCRIPT(redis_queues[call.priority], call.job, call.score)
         e == _enqueue_local(local_queues[call.priority], call.job, call.score)
     IN /\ redis_queues' = IF fails THEN redis_queues
                           ELSE [redis_queues EXCEPT ![call.priority] = r.set]
        /\ local_queues' = IF fails
                             THEN [local_queues EXCEPT ![call.priority] = e.queue]
                             ELSE local_queues
        /\ pq_calls' = [pq_calls EXCEPT ![c].pc = "estimate",
                                        ![c].position = IF fails THEN e.ret ELSE r.ret]
  /\ pq_ret' = NoQueueRet
  /\ UNCHANGED <<rl_vars, queue_redis, jobs, videos, usage, now, creating, cancelling,
                 worker, resp, cancel_returned, pq_enqueued>>

\* enqueue resumes with the position, reads the queue lengths and returns
enqueue_return(c, fails) ==
  /\ pq_calls[c].pc = "estimate"
  /\ pq_ret' = QueuePosition(pq_calls[c].job, pq_calls[c].priority,
                             pq_calls[c].position, get_queue_lengths(fails))
  /\ pq_calls' = [pq_calls EXCEPT ![c] = NoQueueCall]
  /\ UNCHANGED <<rl_vars, queue_redis, jobs, videos, usage, redis_queues, local_queues,
                 now, creating, cancelling, worker, resp, cancel_returned, pq_enqueued>>

\* what remove returns
Removed(job_id, priority, removed) ==
  [op |-> "remove", job |-> job_id, priority |-> priority, position |-> None,
   estimated_wait_seconds |-> None, removed |-> removed]

\* PriorityQueue.remove of a job from the queue of its priority, up to its
\* first suspension point; without a store client the whole call is this step
remove(job_id) ==
  /\ job_id \in DOMAIN pq_enqueued
  /\ LET priority == pq_enqueued[job_id].priority
         r == remove_local(local_queues[priority], job_id)
     IN IF queue_redis
          THEN /\ \E c \in 1 .. MaxQueueCalls :
                    /\ pq_calls[c] = NoQueueCall
                    /\ \A k \in 1 .. c - 1 : pq_calls[k] # NoQueueCall
                    /\ pq_calls' = [pq_calls EXCEPT ![c] =
                                      [pc |-> "remove", job |-> job_id,
                                       priority |-> priority, score |-> None,
                                       position |-> None]]
               /\ pq_ret' = NoQueueRet
               /\ UNCHANGED <<local_queues, pq_enqueued>>
          ELSE /\ local_queues' = [local_queues EXCEPT ![priority] = r.queue]
               /\ pq_ret' = Removed(job_id, priority, r.ret)
               /\ pq_enqueued' = [pq_enqueued EXCEPT ![job_id].removed = @ \/ r.ret]
               /\ UNCHANGED pq_calls
  /\ UNCHANGED <<rl_vars, queue_redis, jobs, videos, usage, redis_queues, now, creating,
                 cancelling, worker, resp, cancel_returned>>

\* zrem runs in the store and remove returns whether it removed the member;
\* when the call raises, remove falls back to the local list
remove_zrem(c, fails) ==
  /\ pq_calls[c].pc = "remove"
  /\ LET call == pq_calls[c]
         r == remove_local(local_queues[call.priority], call.job)
         removed == ZRANK(redis_queues[call.priority], call.job) # None
     IN IF fails
          THEN /\ local_queues' = [local_queues EXCEPT ![call.priority] = r.queue]
               /\ pq_ret' = Removed(call.job, call.priority, r.ret)
               /\ pq_enqueued' = [pq_enqueued EXCEPT ![call.job].removed = @ \/ r.ret]
               /\ UNCHANGED redis_queues
          ELSE /\ redis_queues' = [redis_queues EXCEPT ![call.priority] =
                                     ZREM(@, call.job)]
               /\ pq_ret' = Removed(call.job, call.priority, removed)
               /\ pq_enqueued' = [pq_enqueued EXCEPT ![call.job].removed = @ \/ removed]
               /\ UNCHANGED local_queues
  /\ pq_calls' = [pq_calls EXCEPT ![c] = NoQueueCall]
  /\ UNCHANGED <<rl_vars, queue_redis, jobs, videos, usage, now, creating, cancelling,
                 worker, resp, cancel_returned>>

\* ----------------------------------------------------------- rate limiter
\* A sorted set of request timestamps is the sequence of its scores in order
\* (the members are request ids, all different).

ZREMRANGEBYSCORE(z, max) == SelectSeq(z, LAMBDA ts : ts > max)

ZADD_score(z, score) ==
  SelectSeq(z, LAMBDA ts : ts <= score) \o <<score>>
    \o SelectSeq(z, LAMBDA ts : ts > score)

\* the script with the ZADD moved before the comparison with the limit
RATE_LIMIT_SCRIPT_always_adds(z, window, limit, t) ==
  LET z1 == ZREMRANGEBYSCORE(z, t - window)
      count == Len(z1)
  IN IF count < limit
       THEN [set |-> ZADD_score(z1, t),
             ret |-> <<1, limit - count - 1, t + window>>]
       ELSE [set |-> ZADD_score(z1, t),
             ret |-> <<0, 0, (IF Len(z1) >= 1 THEN z1[1] ELSE t) + window>>]

\* the script over one sorted set: the new set and {allowed, remaining, reset}
RATE_LIMIT_SCRIPT(z, window, limit, t) ==
  LET z1 == ZREMRANGEBYSCORE(z, t - window)
      count == Len(z1)
  IN IF count < limit
       THEN [set |-> ZADD_score(z1, t),
             ret |-> <<1, limit - count - 1, t + window>>]
       ELSE [set |-> z1,
             ret |-> <<0, 0, (IF Len(z1) >= 1 THEN z1[1] ELSE t) + window>>]

RECURSIVE min(_)
min(list) ==
  IF Len(list) = 1 THEN list[1]
  ELSE LET m == min(Tail(list)) IN IF list[1] <= m THEN list[1] ELSE m

RateLimitResult(allowed, limit, remaining, reset_at) ==
  [allowed |-> allowed, limit |-> limit, remaining |-> remaining,
   reset_at |-> reset_at, window_seconds |-> window_seconds]

\* _check_local that reports the remaining calls before counting this one
_check_local_uncounted(list, limit, t) ==
  LET cutoff == t - window_seconds
      kept == SelectSeq(list, LAMBDA ts : ts > cutoff)
      count == Len(kept)
  IN IF count < limit
       THEN [list |-> Append(kept, t),
             result |-> RateLimitResult(TRUE, limit, limit - count,
                                        t + window_seconds)]
       ELSE [list |-> kept,
             result |-> RateLimitResult(FALSE, limit, 0,
                          (IF Len(kept) > 0 THEN min(kept) ELSE t) + window_seconds)]

\* _check_local on one list of timestamps: the new list and the result
_check_local(list, limit, t) ==
  LET cutoff == t - window_seconds
      kept == SelectSeq(list, LAMBDA ts : ts > cutoff)
      count == Len(kept)
  IN IF count < limit
       THEN [list |-> Append(kept, t),
             result |-> RateLimitResult(TRUE, limit, limit - count - 1,
                                        t + window_seconds)]
       ELSE [list |-> kept,
             result |-> RateLimitResult(FALSE, limit, 0,
                          (IF Len(kept) > 0 THEN min(kept) ELSE t) + window_seconds)]

\* the calls allowed so far and the calls whose script has not run yet
requests_counted ==
  LET RECURSIVE total(_)
      total(ks) == IF ks = {} THEN 0
                   ELSE LET k == CHOOSE x \in ks : TRUE
                        IN Len(admitted[k]) + total(ks \ {k})
  IN total(Keys) + Cardinality({c \in DOMAIN rl_calls : rl_calls[c] # NoCall})

\* check_and_increment up to its first suspension point: with a store client
\* the call reads the clock and sends the script; without one it is _check_local
check_and_increment(user_id, endpoint) ==
  LET key == _get_key(user_id, endpoint)
      limit == get_tier_config(MOCK_USERS[user_id]).rate_limit_per_minute
  IN /\ requests_counted < MaxRequests
     /\ IF rl_redis
          THEN /\ \E c \in DOMAIN rl_calls :
                    /\ rl_calls[c] = NoCall
                    /\ \A k \in 1 .. c - 1 : rl_calls[k] # NoCall
                    /\ rl_calls' = [rl_calls EXCEPT ![c] =
                                      [key |-> key, now |-> now, limit |-> limit]]
               /\ rl_result' = NoResult
               /\ UNCHANGED <<rate_limit, _local_counts, admitted>>
          ELSE LET r == _check_local(_local_counts[key], limit, now)
               IN /\ _local_counts' = [_local_counts EXCEPT ![key] = r.list]
                  /\ rl_result' = r.result
                  /\ admitted' = IF r.result.allowed
                                   THEN [admitted EXCEPT ![key] = ZADD_score(@, now)]
                                   ELSE admitted
                  /\ UNCHANGED <<rate_limit, rl_calls>>
     /\ rl_usage' = NoResult
     /\ UNCHANGED <<rl_redis, job_vars, now, rl_reads>>

\* _check_redis that denies the request when the store call raises
_check_redis_fail_closed(c, fails) ==
  /\ rl_calls[c] # NoCall
  /\ LET call == rl_calls[c]
         r == RATE_LIMIT_SCRIPT(rate_limit[call.key], window_seconds, call.limit,
                                call.now)
     IN IF fails
          THEN /\ rl_result' = RateLimitResult(FALSE, call.limit, 0,
                                               call.now + window_seconds)
               /\ UNCHANGED <<rate_limit, admitted>>
          ELSE /\ rate_limit' = [rate_limit EXCEPT ![call.key] = r.set]
               /\ rl_result' = RateLimitResult(r.ret[1] = 1, call.limit, r.ret[2],
                                               r.ret[3])
               /\ admitted' = IF r.ret[1] = 1
                                THEN [admitted EXCEPT ![call.key] =
                                        ZADD_score(@, call.now)]
                                ELSE admitted
  /\ rl_calls' = [rl_calls EXCEPT ![c] = NoCall]
  /\ rl_usage' = NoResult
  /\ UNCHANGED <<rl_redis, _local_counts, job_vars, now, rl_reads>>

\* the script of a suspended call runs in the store and the call returns its
\* result; when the store call raises, the call fails open: it returns
\* allowed with remaining = limit - 1 and nothing is recorded
_check_redis(c, fails) ==
  /\ rl_calls[c] # NoCall
  /\ LET call == rl_calls[c]
         r == RATE_LIMIT_SCRIPT(rate_limit[call.key], window_seconds, call.limit,
                                call.now)
     IN IF fails
          THEN /\ rl_result' = RateLimitResult(TRUE, call.limit, call.limit - 1,
                                               call.now + window_seconds)
               /\ admitted' = [admitted EXCEPT ![call.key] = ZADD_score(@, call.now)]
               /\ UNCHANGED rate_limit
          ELSE /\ rate_limit' = [rate_limit EXCEPT ![call.key] = r.set]
               /\ rl_result' = RateLimitResult(r.ret[1] = 1, call.limit, r.ret[2],
                                               r.ret[3])
               /\ admitted' = IF r.ret[1] = 1
                                THEN [admitted EXCEPT ![call.key] =
                                        ZADD_score(@, call.now)]
                                ELSE admitted
  /\ rl_calls' = [rl_calls EXCEPT ![c] = NoCall]
  /\ rl_usage' = NoResult
  /\ UNCHANGED <<rl_redis, _local_counts, job_vars, now, rl_reads>>

\* the value get_current_usage returns for a count of entries
usage_result(count, limit, t) ==
  RateLimitResult(count < limit, limit, IF limit - count > 0 THEN limit - count ELSE 0,
                  t + window_seconds)

\* the local fallback of get_current_usage: the expired entries of the list
\* are dropped and the rest is counted
usage_local(list, limit, t) ==
  LET kept == SelectSeq(list, LAMBDA ts : ts > t - window_seconds)
  IN [list |-> kept, result |-> usage_result(Len(kept), limit, t)]

\* get_current_usage up to its first suspension point: with a store client the
\* call reads the clock and sends zremrangebyscore; without one it is the
\* local fallback
get_current_usage(user_id, endpoint) ==
  LET key == _get_key(user_id, endpoint)
      limit == get_tier_config(MOCK_USERS[user_id]).rate_limit_per_minute
  IN /\ IF rl_redis
          THEN /\ \E c \in DOMAIN rl_reads :
                    /\ rl_reads[c] = NoRead
                    /\ \A k \in 1 .. c - 1 : rl_reads[k] # NoRead
                    /\ rl_reads' = [rl_reads EXCEPT ![c] =
                                      [key |-> key, now |-> now, limit |-> limit,
                                       pc |-> "zremrangebyscore"]]
               /\ rl_usage' = NoResult
               /\ UNCHANGED _local_counts
          ELSE LET r == usage_local(_local_counts[key], limit, now)
               IN /\ _local_counts' = [_local_counts EXCEPT ![key] = r.list]
                  /\ rl_usage' = r.result
                  /\ UNCHANGED rl_reads
     /\ rl_result' = NoResult
     /\ UNCHANGED <<rl_redis, rate_limit, rl_calls, admitted, job_vars, now>>

\* zremrangebyscore runs in the store while get_current_usage is suspended;
\* when the call raises, get_current_usage goes on with the local fallback
get_current_usage_purged(c, fails) ==
  /\ rl_reads[c].pc = "zremrangebyscore"
  /\ LET call == rl_reads[c]
         r == usage_local(_local_counts[call.key], call.limit, call.now)
     IN IF fails
          THEN /\ _local_counts' = [_local_counts EXCEPT ![call.key] = r.list]
               /\ rl_usage' = r.result
               /\ rl_reads' = [rl_reads EXCEPT ![c] = NoRead]
               /\ UNCHANGED rate_limit
          ELSE /\ rate_limit' = [rate_limit EXCEPT ![call.key] =
                                   ZREMRANGEBYSCORE(@, call.now - window_seconds)]
               /\ rl_reads' = [rl_reads EXCEPT ![c].pc = "zcard"]
               /\ rl_usage' = NoResult
               /\ UNCHANGED _local_counts
  /\ rl_result' = NoResult
  /\ UNCHANGED <<rl_redis, rl_calls, admitted, job_vars, now>>

\* zcard runs in the store and get_current_usage returns; when the call
\* raises, get_current_usage returns the local fallback
get_current_usage_counted(c, fails) ==
  /\ rl_reads[c].pc = "zcard"
  /\ LET call == rl_reads[c]
         r == usage_local(_local_counts[call.key], call.limit, call.now)
     IN IF fails
          THEN /\ _local_counts' = [_local_counts EXCEPT ![call.key] = r.list]
               /\ rl_usage' = r.result
          ELSE /\ rl_usage' = usage_result(ZCARD(rate_limit[call.key]), call.limit,
                                           call.now)
               /\ UNCHANGED _local_counts
  /\ rl_reads' = [rl_reads EXCEPT ![c] = NoRead]
  /\ rl_result' = NoResult
  /\ UNCHANGED <<rl_redis, rate_limit, rl_calls, admitted, job_vars, now>>

\* ------------------------- the in-process check on a clock of sub-seconds
\* time.time() is a float: here the clock counts ticks of 1/ClockResolution
\* of a second, the log holds ticks, and reset_at is in whole seconds
window_ticks == window_seconds * ClockResolution

\* int(x) and math.floor(x) of a time x >= 0 given in ticks: whole seconds
int_seconds(ticks) == ticks \div ClockResolution

\* the instants, in ticks, of the checks: within the first two seconds, and
\* around the end of the window of the entries made then
RetryInstants ==
  (1 .. 2 * ClockResolution - 1)
    \cup {window_ticks + d : d \in -1 .. ClockResolution + 1}

\* the denial that computes reset_at from the newest entry
_check_local_ticks_newest(list, limit, t) ==
  LET cutoff == t - window_ticks
      kept == SelectSeq(list, LAMBDA ts : ts > cutoff)
      count == Len(kept)
  IN IF count < limit
       THEN [list |-> Append(kept, t),
             result |-> RateLimitResult(TRUE, limit, limit - count - 1,
                                        int_seconds(t + window_ticks))]
       ELSE [list |-> kept,
             result |-> RateLimitResult(FALSE, limit, 0,
                          int_seconds((IF Len(kept) > 0 THEN kept[Len(kept)] ELSE t)
                                        + window_ticks))]

\* _check_local on one list of timestamps in ticks: the new list and the result
_check_local_ticks(list, limit, t) ==
  LET cutoff == t - window_ticks
      kept == SelectSeq(list, LAMBDA ts : ts > cutoff)
      count == Len(kept)
  IN IF count < limit
       THEN [list |-> Append(kept, t),
             result |-> RateLimitResult(TRUE, limit, limit - count - 1,
                                        int_seconds(t + window_ticks))]
       ELSE [list |-> kept,
             result |-> RateLimitResult(FALSE, limit, 0,
                          int_seconds((IF Len(kept) > 0 THEN min(kept) ELSE t)
                                        + window_ticks))]

\* RateLimitResult.retry_after read at the time t, in ticks
retry_after(result, t) ==
  IF result.reset_at - int_seconds(t) > 0 THEN result.reset_at - int_seconds(t)
  ELSE 0

\* check_and_increment of the free user without a store client, on the clock
\* of ticks
check_and_increment_ticks ==
  LET key == _get_key("user_free_001", "/v1/jobs")
      limit == get_tier_config(MOCK_USERS["user_free_001"]).rate_limit_per_minute
      r == _check_local_ticks(_local_counts[key], limit, now)
  IN /\ ~rl_redis
     /\ requests_counted < MaxRequests
     /\ _local_counts' = [_local_counts EXCEPT ![key] = r.list]
     /\ rl_result' = r.result
     /\ admitted' = IF r.result.allowed
                      THEN [admitted EXCEPT ![key] = Append(@, now)]
                      ELSE admitted
     /\ rl_usage' = NoResult
     /\ UNCHANGED <<rl_redis, rate_limit, rl_calls, rl_reads, job_vars, now>>

\* the clock of ticks moves on to a later instant
Tick_ticks ==
  /\ \E t \in RetryInstants : t > now /\ now' = t
  /\ rl_result' = NoResult
  /\ rl_usage' = NoResult
  /\ UNCHANGED <<job_vars, rl_redis, rate_limit, _local_counts, rl_calls, admitted,
                 rl_reads>>

\* the checks of the free user on the clock of ticks
NextRetry ==
  \/ check_and_increment_ticks
  \/ Tick_ticks

\* ------------------------------------------------------- the middleware
\* RateLimitMiddleware.EXCLUDED_PATHS
EXCLUDED_PATHS == {"/health", "/docs", "/redoc", "/openapi.json"}

\* the paths requested: the excluded ones and POST /v1/generate
RequestPaths == EXCLUDED_PATHS \cup {"/v1/generate"}

\* MOCK_USERS as the auth service holds it: X-API-Key |-> user id
API_KEYS ==
  [k \in {"free_test_key", "dev_test_key", "pro_test_key", "enterprise_test_key"} |->
     CASE k = "free_test_key" -> "user_free_001"
       [] k = "dev_test_key" -> "user_dev_001"
       [] k = "pro_test_key" -> "user_pro_001"
       [] OTHER -> "user_ent_001"]

\* no X-API-Key header in the request, and no user for a key
NoHeader == ""
NoUser == ""

\* the X-API-Key headers sent: none, one of no user, the developer's
Headers == {NoHeader, "no_such_key", "dev_test_key"}

\* a validation that takes every key for the developer's
validate_api_key_accepting_all(api_key) == "user_dev_001"

\* MockAuthService.validate_api_key: the user of the key, NoUser where it raises
validate_api_key(api_key) ==
  IF api_key \in DOMAIN API_KEYS THEN API_KEYS[api_key] ELSE NoUser

\* a middleware that lets the denied requests through
rate_limited_never(result) == FALSE

\* dispatch: `if not result.allowed`, the request is answered 429
rate_limited(result) == ~result.allowed

\* the number of entries of a log at one timestamp
entries_at(z, t) == Len(SelectSeq(z, LAMBDA ts : ts = t))

\* the request is handed to the downstream app without a check and answered
\* by it; for a path under /v1 the auth dependency of the endpoint raises
call_next_unchecked(op, duration, result) ==
  /\ resp' = Response(op, "", None, duration, result, "")
  /\ rl_result' = NoResult
  /\ rl_usage' = NoResult
  /\ UNCHANGED <<rl_redis, rate_limit, _local_counts, rl_calls, admitted, rl_reads,
                 pq_vars, cancel_returned, queue_redis, jobs, videos, usage,
                 redis_queues, local_queues, now, creating, cancelling, worker>>

\* RateLimitMiddleware.dispatch up to its first suspension point. An excluded
\* path, an absent key and an invalid key go to the downstream app at once.
\* Otherwise check_and_increment is called: with a store client the call is
\* suspended on the script; without one _check_local answers, and the request
\* is answered 429 or waits in call_next for its handler.
dispatch(path, api_key, duration) ==
  LET user == IF api_key = NoHeader THEN NoUser ELSE validate_api_key(api_key)
  IN IF path \in EXCLUDED_PATHS
       THEN call_next_unchecked("excluded", None, "ok")
     ELSE IF api_key = NoHeader
       THEN call_next_unchecked("create", duration, "MissingCredentialsError")
     ELSE IF user = NoUser
       THEN call_next_unchecked("create", duration, "InvalidAPIKeyError")
     ELSE
       LET key == _get_key(user, path)
           limit == get_tier_config(MOCK_USERS[user]).rate_limit_per_minute
           call == [key |-> key, now |-> now, limit |-> limit, pc |-> "check",
                    user |-> user, duration |-> duration, consumed |-> 0,
                    raised |-> FALSE]
           r == _check_local(_local_counts[key], limit, now)
       IN /\ requests_counted < MaxDispatched
          /\ IF rl_redis
               THEN /\ \E c \in DOMAIN rl_calls :
                         /\ rl_calls[c] = NoCall
                         /\ \A k \in 1 .. c - 1 : rl_calls[k] # NoCall
                         /\ rl_calls' = [rl_calls EXCEPT ![c] = call]
                    /\ rl_result' = NoResult
                    /\ resp' = NoResp
                    /\ UNCHANGED <<rate_limit, _local_counts, admitted>>
               ELSE /\ _local_counts' = [_local_counts EXCEPT ![key] = r.list]
                    /\ rl_result' = r.result
                    /\ admitted' = IF r.result.allowed
                                     THEN [admitted EXCEPT ![key] = ZADD_score(@, now)]
                                     ELSE admitted
                    /\ IF rate_limited(r.result)
                         THEN /\ resp' = Response("create", user, None, duration,
                                                  "TooManyRequestsError", "")
                              /\ UNCHANGED rl_calls
                         ELSE /\ \E c \in DOMAIN rl_calls :
                                   /\ rl_calls[c] = NoCall
                                   /\ \A k \in 1 .. c - 1 : rl_calls[k] # NoCall
                                   /\ rl_calls' = [rl_calls EXCEPT ![c] =
                                        [call EXCEPT
                                           !.pc = "call_next",
                                           !.consumed =
                                             entries_at(r.list, now)
                                               - entries_at(_local_counts[key], now)]]
                              /\ resp' = NoResp
                    /\ UNCHANGED rate_limit
          /\ rl_usage' = NoResult
          /\ UNCHANGED <<rl_redis, rl_reads, pq_vars, cancel_returned, queue_redis,
                         jobs, videos, usage, redis_queues, local_queues, now,
                         creating, cancelling, worker>>

\* the script of a suspended dispatch runs in the store, or the store call
\* raises and the check fails open; the middleware resumes with the result and
\* answers 429 or goes on to call_next
dispatch_checked(c, fails) ==
  /\ rl_calls[c] # NoCall
  /\ rl_calls[c].pc = "check"
  /\ LET call == rl_calls[c]
         r == RATE_LIMIT_SCRIPT(rate_limit[call.key], window_seconds, call.limit,
                                call.now)
         set == IF fails THEN rate_limit[call.key] ELSE r.set
         result == IF fails
                     THEN RateLimitResult(TRUE, call.limit, call.limit - 1,
                                          call.now + window_seconds)
                     ELSE RateLimitResult(r.ret[1] = 1, call.limit, r.ret[2],
                                          r.ret[3])
     IN /\ rate_limit' = [rate_limit EXCEPT ![call.key] = set]
        /\ rl_result' = result
        /\ admitted' = IF result.allowed
                         THEN [admitted EXCEPT ![call.key] = ZADD_score(@, call.now)]
                         ELSE admitted
        /\ IF rate_limited(result)
             THEN /\ resp' = Response("create", call.user, None, call.duration,
                                      "TooManyRequestsError", "")
                  /\ rl_calls' = [rl_calls EXCEPT ![c] = NoCall]
             ELSE /\ resp' = NoResp
                  /\ rl_calls' = [rl_calls EXCEPT ![c] =
                       [call EXCEPT
                          !.pc = "call_next",
                          !.consumed = entries_at(set, call.now)
                                         - entries_at(rate_limit[call.key], call.now),
                          !.raised = fails]]
  /\ rl_usage' = NoResult
  /\ UNCHANGED <<rl_redis, _local_counts, rl_reads, pq_vars, cancel_returned,
                 queue_redis, jobs, videos, usage, redis_queues, local_queues, now,
                 creating, cancelling, worker>>

\* call_next for POST /v1/generate: generate_video runs create_job for the user
\* of the request, the queue being built without a store client
generate_video(c, ids) ==
  /\ rl_calls[c] # NoCall
  /\ rl_calls[c].pc = "call_next"
  /\ ~queue_redis
  /\ LET user == rl_calls[c].user
         duration == rl_calls[c].duration
         adm == admission(user, duration)
     IN IF adm.result # "ok"
          THEN /\ resp' = Response("create", user, None, duration, adm.result,
                                   adm.detail)
               /\ UNCHANGED <<jobs, local_queues>>
          ELSE \E job_id \in {fresh_job_id} \cap ids :
                 LET job == NewJob(user, duration)
                     e == _enqueue_local(local_queues[job.priority], job_id, now)
                     lq == [local_queues EXCEPT ![job.priority] = e.queue]
                     lengths == [p \in QueuePriority |-> Len(lq[p])]
                 IN /\ local_queues' = lq
                    /\ jobs' = (job_id :> QueuedJob(job, e.ret, lengths)) @@ jobs
                    /\ resp' = Response("create", user, job_id, duration, "ok", "")
  /\ rl_calls' = [rl_calls EXCEPT ![c] = NoCall]
  /\ rl_result' = NoResult
  /\ rl_usage' = NoResult
  /\ UNCHANGED <<rl_redis, rate_limit, _local_counts, admitted, rl_reads, pq_vars,
                 cancel_returned, queue_redis, videos, usage, redis_queues, now,
                 creating, cancelling, worker>>

\* the requests that pass the middleware and their handlers; faults: whether
\* a store call can raise
NextMiddleware(faults) ==
  \/ \E path \in RequestPaths, api_key \in Headers, d \in Durations :
       dispatch(path, api_key, d)
  \/ \E c \in 1 .. MaxInflight, fails \in faults : dispatch_checked(c, fails)
  \/ \E c \in 1 .. MaxInflight : generate_video(c, DevJobIds)

\* ---------------------------------------------------------- batch generation
\* POST /v1/generate/batch, the queue being built without a store client: no
\* create_job of the loop suspends, the handler is one step.

BatchUsers == {"user_dev_001", "user_pro_001"}
BatchJobIds == 1 .. MaxBatchJobs

\* BatchGenerationRequest.requests, each item given by its duration: the
\* longest video of the pro tier or one second more
BatchDurations == {120, 121}
BatchRequests == UNION {[1 .. n -> BatchDurations] : n \in 1 .. MaxBatchItems}

tier_hierarchy == <<"free", "developer", "pro", "enterprise">>

tier_index(tier) == CHOOSE i \in 1 .. Len(tier_hierarchy) : tier_hierarchy[i] = tier

\* the dependency of the route: the user's tier against the minimum tier
require_tier(user, minimum_tier) ==
  IF tier_index(MOCK_USERS[user]) < tier_index(minimum_tier)
    THEN [result |-> "InsufficientTierError", detail |-> minimum_tier]
    ELSE [result |-> "ok", detail |-> ""]

\* create_job run on the stored jobs js and the in-process queues lq: the
\* admission checks, then the job stored, enqueued and written back as QUEUED
create_job_on(js, lq, user, duration) ==
  LET tier_config == get_tier_config(MOCK_USERS[user])
      daily_usage == usage.daily[user]
      active_jobs == Cardinality({j \in DOMAIN js :
                                    /\ js[j].user_id = user
                                    /\ js[j].status \notin TerminalStatuses})
      raised(result, detail) ==
        [result |-> result, detail |-> detail, jobs |-> js, queues |-> lq,
         job_id |-> None]
  IN IF ~tier_config.can_generate
       THEN raised("InsufficientTierError", "developer")
     ELSE IF duration > tier_config.max_video_duration
       THEN raised("InsufficientTierError",
                   IF duration <= 120 THEN "pro" ELSE "enterprise")
     ELSE IF tier_config.daily_quota > 0 /\ daily_usage >= tier_config.daily_quota
       THEN raised("QuotaExceededError", "daily")
     ELSE IF active_jobs >= tier_config.max_concurrent_jobs
       THEN raised("QuotaExceededError", "concurrent_jobs")
     ELSE LET job_id == Cardinality(DOMAIN js) + 1
              job == NewJob(user, duration)
              e == _enqueue_local(lq[job.priority], job_id, now)
              lq2 == [lq EXCEPT ![job.priority] = e.queue]
              lengths == [p \in QueuePriority |-> Len(lq2[p])]
          IN [result |-> "ok", detail |-> "",
              jobs |-> (job_id :> QueuedJob(job, e.ret, lengths)) @@ js,
              queues |-> lq2, job_id |-> job_id]

\* the loop of batch_generate_videos over the items left: the first create_job
\* that raises ends the request, what the earlier ones did stays
RECURSIVE create_jobs(_, _, _, _, _)
create_jobs(js, lq, user, requests, job_ids) ==
  IF requests = << >>
    THEN [result |-> "ok", detail |-> "", jobs |-> js, queues |-> lq,
          job_ids |-> job_ids]
    ELSE LET r == create_job_on(js, lq, user, Head(requests))
         IN IF r.result # "ok"
              THEN [result |-> r.result, detail |-> r.detail, jobs |-> js,
                    queues |-> lq, job_ids |-> job_ids]
              ELSE create_jobs(r.jobs, r.queues, user, Tail(requests),
                               Append(job_ids, r.job_id))

\* a loop whose failure takes back what the earlier items did
batch_loop_rolled_back(user, requests) ==
  LET r == create_jobs(jobs, local_queues, user, requests, << >>)
  IN IF r.result # "ok"
       THEN [r EXCEPT !.jobs = jobs, !.queues = local_queues, !.job_ids = << >>]
       ELSE r

batch_loop(user, requests) ==
  create_jobs(jobs, local_queues, user, requests, << >>)

\* the answer of the batch route; requests is the body that was sent
BatchResponse(user, requests, result, detail, job_ids) ==
  [op |-> "batch", user |-> user, job |-> None, duration |-> None,
   result |-> result, detail |-> detail, requests |-> requests,
   job_ids |-> job_ids, total_queued |-> Len(job_ids)]

batch_generate_videos(user, requests) ==
  /\ ~queue_redis
  /\ UNCHANGED <<rl_vars, pq_vars, cancel_returned, queue_redis, videos, usage,
                 redis_queues, now, creating, cancelling, worker>>
  /\ LET tier == require_tier(user, "pro")
     IN IF tier.result # "ok"
          THEN /\ resp' = BatchResponse(user, requests, tier.result, tier.detail, << >>)
               /\ UNCHANGED <<jobs, local_queues>>
          ELSE LET r == batch_loop(user, requests)
               IN /\ DOMAIN r.jobs \subseteq BatchJobIds
                  /\ jobs' = r.jobs
                  /\ local_queues' = r.queues
                  /\ resp' = BatchResponse(user, requests, r.result, r.detail,
                                           IF r.result = "ok" THEN r.job_ids ELSE << >>)

\* time.time() moves on to a later instant
Tick ==
  /\ \E t \in Instants : t > now /\ now' = t
  /\ rl_result' = NoResult
  /\ rl_usage' = NoResult
  /\ UNCHANGED <<job_vars, rl_redis, rate_limit, _local_counts, rl_calls, admitted,
                 rl_reads>>

\* the rate-limited requests of the middleware; faults: whether a store call
\* can raise
NextRL(users, faults) ==
  \/ \E u \in users, e \in Endpoints : check_and_increment(u, e)
  \/ \E c \in 1 .. MaxInflight, fails \in faults : _check_redis(c, fails)
  \/ Tick

\* the rate-limited requests and the read-only inspections of the limiter
NextUsage(users, faults) ==
  \/ NextRL(users, faults)
  \/ \E u \in users, e \in Endpoints : get_current_usage(u, e)
  \/ \E c \in 1 .. MaxReads, fails \in faults : get_current_usage_purged(c, fails)
  \/ \E c \in 1 .. MaxReads, fails \in faults : get_current_usage_counted(c, fails)

\* the client calls up to their first suspension point
Requests(clients, ids) ==
  \/ \E u \in clients, d \in Durations : create_job(u, d, ids)
  \/ \E j \in ids, u \in clients : cancel_job(j, u)

\* the shared-store calls of suspended client calls and their resumptions;
\* faults: whether a call can raise
SharedCalls(ids, faults) ==
  \/ \E j \in ids, fails \in faults : create_job_enqueued(j, fails)
  \/ \E j \in ids, fails \in faults : create_job_finish(j, fails)
  \/ \E c \in 1 .. MaxCancels, fails \in faults : cancel_job_removed(c, fails)
  \/ \E c \in 1 .. MaxCancels : cancel_job_finish(c)

\* the generator and the sleep of the worker loop
Generator ==
  \/ worker_wake
  \/ worker_generate_ok
  \/ \E error \in {"GenerationError", "Exception"} : worker_generate_fail(error)

\* the job ids given to enqueue: as many as the bound of the queue's backend
QueueJobIds == 1 .. (IF queue_redis THEN MaxSharedQueueJobs ELSE MaxQueueJobs)

\* ------------------------------------- the same calls given to both backends
\* One priority queue and one rate limiter on the store (redis_queues,
\* rate_limit) and one of each in process (local_queues, _local_counts) get
\* the same calls one after the other, with the same clock and the same draw;
\* pq_ret holds what the two returned.

BothReturned(op, shared, local) == [op |-> op, shared |-> shared, local |-> local]

\* _dequeue_redis with no other call in between: the pop of the selected set,
\* then the pops in the fixed order until one returns a job
_dequeue_redis(qs, choice) ==
  LET RECURSIVE walk(_)
      walk(i) == IF i > Len(priorities) THEN [queues |-> qs, ret |-> None]
                 ELSE LET r == _pop_from_redis_queue(qs, priorities[i], FALSE)
                      IN IF r.ret # None THEN r ELSE walk(i + 1)
      first == _pop_from_redis_queue(qs, priorities[select_bucket(choice, 1, 0)], FALSE)
  IN IF first.ret # None THEN first ELSE walk(1)

\* what get_position returns from the position script of the store
get_position_redis(z, job_id) ==
  LET position == QUEUE_POSITION_SCRIPT(z, job_id)
  IN IF position > 0 THEN position ELSE None

enqueue_both(job_id, priority) ==
  /\ Len(local_queues["critical"]) + Len(local_queues["high"])
       + Len(local_queues["normal"]) < MaxBackendEntries
  /\ LET s == QUEUE_ENQUEUE_SCRIPT(redis_queues[priority], job_id, now)
         l == _enqueue_local(local_queues[priority], job_id, now)
         rq == [redis_queues EXCEPT ![priority] = s.set]
         lq == [local_queues EXCEPT ![priority] = l.queue]
     IN /\ redis_queues' = rq
        /\ local_queues' = lq
        /\ pq_ret' = BothReturned("enqueue",
                        QueuePosition(job_id, priority, s.ret,
                                      [p \in QueuePriority |-> ZCARD(rq[p])]),
                        QueuePosition(job_id, priority, l.ret,
                                      [p \in QueuePriority |-> Len(lq[p])]))
  /\ UNCHANGED <<rl_vars, queue_redis, jobs, videos, usage, now, creating, cancelling,
                 worker, resp, cancel_returned, pq_enqueued, pq_calls>>

dequeue_both(choice) ==
  /\ LET s == _dequeue_redis(redis_queues, choice)
         l == _dequeue_local(local_queues, choice)
     IN /\ redis_queues' = s.queues
        /\ local_queues' = l.queues
        /\ pq_ret' = BothReturned("dequeue", s.ret, l.ret)
  /\ UNCHANGED <<rl_vars, queue_redis, jobs, videos, usage, now, creating, cancelling,
                 worker, resp, cancel_returned, pq_enqueued, pq_calls>>

remove_both(job_id, priority) ==
  /\ redis_queues' = [redis_queues EXCEPT ![priority] = ZREM(@, job_id)]
  /\ local_queues' = [local_queues EXCEPT ![priority] = remove_local(@, job_id).queue]
  /\ pq_ret' = BothReturned("remove", ZRANK(redis_queues[priority], job_id) # None,
                            remove_local(local_queues[priority], job_id).ret)
  /\ UNCHANGED <<rl_vars, queue_redis, jobs, videos, usage, now, creating, cancelling,
                 worker, resp, cancel_returned, pq_enqueued, pq_calls>>

get_position_both(job_id, priority) ==
  /\ pq_ret' = BothReturned("get_position",
                            get_position_redis(redis_queues[priority], job_id),
                            position_local(local_queues[priority], job_id))
  /\ UNCHANGED <<rl_vars, queue_redis, jobs, videos, usage, redis_queues, local_queues,
                 now, creating, cancelling, worker, resp, cancel_returned, pq_enqueued,
                 pq_calls>>

check_and_increment_both(user_id, endpoint) ==
  /\ Len(_local_counts[_get_key(user_id, endpoint)]) < MaxBackendChecks
  /\ LET key == _get_key(user_id, endpoint)
         limit == get_tier_config(MOCK_USERS[user_id]).rate_limit_per_minute
         s == RATE_LIMIT_SCRIPT(rate_limit[key], window_seconds, limit, now)
         l == _check_local(_local_counts[key], limit, now)
     IN /\ rate_limit' = [rate_limit EXCEPT ![key] = s.set]
        /\ _local_counts' = [_local_counts EXCEPT ![key] = l.list]
        /\ pq_ret' = BothReturned("check_and_increment",
                        RateLimitResult(s.ret[1] = 1, limit, s.ret[2], s.ret[3]),
                        l.result)
  /\ UNCHANGED <<rl_redis, rl_calls, rl_result, admitted, read_vars, queue_redis, jobs,
                 videos, usage, redis_queues, local_queues, now, creating, cancelling,
                 worker, resp, cancel_returned, pq_enqueued, pq_calls>>

\* the comparison ends with the first call that returns two different results
NextBoth(ids) ==
  /\ pq_ret.op # "none" => pq_ret.shared = pq_ret.local
  /\ \/ \E j \in ids, p \in QueuePriority : enqueue_both(j, p)
     \/ \E choice \in 1 .. total_weight : dequeue_both(choice)
     \/ \E j \in ids, p \in QueuePriority : remove_both(j, p)
     \/ \E j \in ids, p \in QueuePriority : get_position_both(j, p)
     \/ check_and_increment_both("user_free_001", "/v1/jobs")
     \/ Tick /\ now' <= MaxQueueTime

\* job ids are unique: each is given to enqueue once, in order
new_job_id(job_id) == job_id = Cardinality(DOMAIN pq_enqueued) + 1

\* the id of a job that has left the in-process queue, through dequeue or
\* remove: the next arrival takes it, so that arrivals never end
left_job_id(job_id) ==
  /\ job_id \in DOMAIN pq_enqueued
  /\ \A p \in QueuePriority :
       \A i \in 1 .. Len(local_queues[p]) : local_queues[p][i].id # job_id

\* the in-process priority queue with jobs that keep arriving, all calls made
\* at one instant
NextArrivals ==
  \/ \E j \in 1 .. MaxArrivalIds, p \in QueuePriority :
       (new_job_id(j) \/ left_job_id(j)) /\ enqueue(j, p)
  \/ \E j \in 1 .. MaxArrivalIds : remove(j)
  \/ \E choice \in 1 .. total_weight : worker_dequeue_local(choice)
  \/ worker_wake

\* the last draw of each bucket: one value of the draw for every bucket
bucket_draws ==
  {r \in 1 .. total_weight :
     r = total_weight \/ select_bucket(r + 1, 1, 0) # select_bucket(r, 1, 0)}

\* the calls on a priority queue whose job ids are in no job store, with the
\* worker loop as the caller of dequeue
NextQueue(ids, faults) ==
  \/ \E j \in ids, p \in QueuePriority : new_job_id(j) /\ enqueue(j, p)
  \/ \E c \in 1 .. MaxQueueCalls, fails \in faults : _enqueue_redis(c, fails)
  \/ \E c \in 1 .. MaxQueueCalls, fails \in faults : enqueue_return(c, fails)
  \/ \E j \in ids : remove(j)
  \/ \E c \in 1 .. MaxQueueCalls, fails \in faults : remove_zrem(c, fails)
  \/ \E choice \in 1 .. total_weight : worker_dequeue_local(choice)
  \/ \E choice \in 1 .. total_weight, fails \in faults : worker_dequeue(choice, fails)
  \/ \E fails \in faults : worker_pop_next(fails)
  \/ worker_dequeue_none
  \/ worker_process
  \/ worker_wake
  \/ Tick /\ now' <= MaxQueueTime

\* the application as main.py wires it: the queue is built without a store client
NextLocal(clients, ids) ==
  \/ Requests(clients, ids)
  \/ \E choice \in 1 .. total_weight : worker_dequeue_local(choice)
  \/ Generator

\* the queue built with a store client, PriorityQueue(redis)
NextShared(clients, ids, faults) ==
  \/ Requests(clients, ids)
  \/ SharedCalls(ids, faults)
  \/ \E choice \in 1 .. total_weight, fails \in faults : worker_dequeue(choice, fails)
  \/ \E fails \in faults : worker_pop_next(fails)
  \/ worker_dequeue_none
  \/ worker_process
  \/ Generator

\* the batch route and the worker of the application as main.py wires it
NextBatch ==
  \/ \E choice \in 1 .. total_weight : worker_dequeue_local(choice)
  \/ Generator
  \/ \E user \in BatchUsers, requests \in BatchRequests :
       batch_generate_videos(user, requests)

\* the application as main.py wires it, with the shutdown of its lifespan
NextStop(clients, ids) ==
  \/ NextLocal(clients, ids)
  \/ stop

\* no store client at all; a store client in the queue and in the limiter;
\* the wiring of main.py: the limiter gets the client if there is one, the
\* queue never
InitLocal ==
  Init /\ queue_redis = FALSE /\ rl_redis = FALSE /\ usage.daily["user_ent_001"] = 0
InitShared ==
  Init /\ queue_redis = TRUE /\ rl_redis = TRUE /\ usage.daily["user_ent_001"] = 0
InitRL ==
  /\ Init /\ queue_redis = FALSE
  /\ usage.daily["user_dev_001"] = 0 /\ usage.daily["user_ent_001"] = 0

\* a priority queue of either backend, nothing else in use
InitQueue ==
  Init /\ rl_redis = FALSE /\ \A u \in Users : usage.daily[u] = 0

\* an in-process priority queue, nothing else in use
InitQueueLocal == InitQueue /\ queue_redis = FALSE

\* a priority queue on the store, nothing else in use
InitQueueShared == InitQueue /\ queue_redis = TRUE

\* no store client, any of the initial daily counts
InitQuota == Init /\ queue_redis = FALSE /\ rl_redis = FALSE

\* in-process queue, every user is a client
Spec == InitLocal /\ [][NextLocal(Users, JobIds)]_vars

\* the id of a job of an earlier run of the process: its entry is still in
\* the shared store, the in-memory job store of this run does not hold it
StaleJobId == MaxSharedJobs + 1

\* the process has started again on a shared store whose queue of some
\* priority still holds the entry of a job of the earlier run
InitStale ==
  /\ queue_redis = TRUE
  /\ jobs = [j \in {} |-> NoResp]
  /\ videos = {}
  /\ usage = [daily |-> [u \in Users |-> 0], monthly |-> [u \in Users |-> 0]]
  /\ \E p \in QueuePriority :
       redis_queues = [q \in QueuePriority |->
                         IF q = p THEN <<[id |-> StaleJobId, score |-> 0]>>
                         ELSE << >>]
  /\ local_queues = [p \in QueuePriority |-> << >>]
  /\ now = 0
  /\ creating = [j \in {} |-> NoCreate]
  /\ cancelling = [c \in 1 .. MaxCancels |-> NoCancel]
  /\ worker = IdleWorker
  /\ resp = NoResp
  /\ cancel_returned = {}
  /\ pq_enqueued = [j \in {} |-> ""]
  /\ pq_calls = [c \in 1 .. MaxQueueCalls |-> NoQueueCall]
  /\ pq_ret = NoQueueRet
  /\ rl_redis = TRUE
  /\ rate_limit = [k \in Keys |-> << >>]
  /\ _local_counts = [k \in Keys |-> << >>]
  /\ rl_calls = [c \in 1 .. MaxInflight |-> NoCall]
  /\ rl_result = NoResult
  /\ admitted = [k \in Keys |-> << >>]
  /\ rl_reads = [c \in 1 .. MaxReads |-> NoRead]
  /\ rl_usage = NoResult

\* shared-store queue that starts with a stale entry, every user is a client,
\* the store answering every call
SpecStale == InitStale /\ [][NextShared(Users, SharedJobIds, {FALSE})]_vars

\* the worker loop and the suspended client calls as the event loop runs them:
\* a task that can resume does resume, a sleep ends, the store answers, the
\* generator returns or raises
Scheduled ==
  /\ WF_vars(SharedCalls(SharedJobIds, {FALSE}))
  /\ WF_vars(\E choice \in 1 .. total_weight : worker_dequeue(choice, FALSE))
  /\ WF_vars(worker_pop_next(FALSE))
  /\ WF_vars(worker_dequeue_none)
  /\ WF_vars(worker_process)
  /\ WF_vars(Generator)

\* shared-store queue, the store answering every call, every task scheduled
SpecSharedLive ==
  InitShared /\ [][NextShared(Users, SharedJobIds, {FALSE})]_vars /\ Scheduled

\* in-process queue with the shutdown; the event loop resumes the worker task
\* when the generator's sleeps are over, so a generation that can return or
\* raise does so
SpecStop ==
  InitLocal /\ [][NextStop(Users, JobIds)]_vars
    /\ WF_vars(worker_generate_ok
                 \/ \E error \in {"GenerationError", "Exception"} :
                      worker_generate_fail(error))

\* in-process queue, the free and the developer user are the clients
SpecLowTiers == InitLocal /\ [][NextLocal(LowTierUsers, LowTierJobIds)]_vars

\* shared-store queue whose calls can raise, every user is a client
SpecShared == InitShared /\ [][NextShared(Users, SharedJobIds, BOOLEAN)]_vars

\* shared-store queue, the developer's calls while the worker loop is not
\* scheduled
SpecSharedClients ==
  InitShared /\ [][Requests({"user_dev_001"}, DevJobIds)
                     \/ SharedCalls(DevJobIds, {FALSE})]_vars

\* in-process queue, the developer and the enterprise user are the clients
\* and start with any of their daily counts
SpecQuota == InitQuota /\ [][NextLocal(QuotaUsers, QuotaJobIds)]_vars

\* shared-store queue, the developer is the only client and has one video
\* left in the daily quota; the store answers every call and the generator
\* returns a video for every job
InitLastVideo ==
  InitShared /\ usage.daily["user_dev_001"] = TIER_CONFIGS["developer"].daily_quota - 1

NextLastVideo ==
  \/ /\ Cardinality(DOMAIN creating) < MaxSuspended
     /\ \E d \in Durations : create_job("user_dev_001", d, DevJobIds)
  \/ /\ Cardinality(cancel_returned) < MaxCancelled
     /\ \E j \in DevJobIds : cancel_job(j, "user_dev_001")
  \/ SharedCalls(DevJobIds, {FALSE})
  \/ \E choice \in 1 .. total_weight : worker_dequeue(choice, FALSE)
  \/ worker_pop_next(FALSE)
  \/ worker_dequeue_none
  \/ worker_process
  \/ worker_wake
  \/ worker_generate_ok

SpecLastVideo == InitLastVideo /\ [][NextLastVideo]_vars

\* in-process queue, batch requests of the pro user and the developer
InitBatch == InitLocal /\ usage.daily["user_dev_001"] = 0

SpecBatch == InitBatch /\ [][NextBatch]_vars

\* the in-process priority queue with endless arrivals, under a worker loop
\* that keeps running (its sleep ends, its dequeue is called again) and a draw
\* that takes one value of every bucket again and again, which is less than
\* every value of the draw occurring again and again
SpecArrivals ==
  InitQueueLocal /\ [][NextArrivals]_vars
    /\ WF_vars(worker_wake)
    /\ \A choice \in bucket_draws : SF_vars(worker_dequeue_local(choice))

\* both backends under the same calls
SpecBoth == InitQueueLocal /\ [][NextBoth(1 .. MaxSharedQueueJobs)]_vars

\* the priority queue on the store when any store call can raise
SpecQueueFaults == InitQueueShared /\ [][NextQueue(QueueJobIds, BOOLEAN)]_vars

\* the priority queue under enqueue, remove and dequeue calls at two instants,
\* the store answering every call
SpecQueue == InitQueue /\ [][NextQueue(QueueJobIds, {FALSE})]_vars

\* the rate limiter under the requests and the inspections of the free user
SpecUsage == InitRL /\ [][NextUsage({"user_free_001"}, {FALSE})]_vars

\* the rate limiter under the requests of the free user and the developer
\* at one instant
SpecKeys ==
  InitRL /\ [][\/ \E u \in RLUsers, e \in Endpoints : check_and_increment(u, e)
               \/ \E c \in 1 .. MaxInflight : _check_redis(c, FALSE)]_vars

\* the store-backed rate limiter under the requests of the free user when
\* store calls can raise
InitRLShared == InitRL /\ rl_redis = TRUE

SpecRLFaults == InitRLShared /\ [][NextRL({"user_free_001"}, BOOLEAN)]_vars

\* the middleware when the developer's window of POST /v1/generate holds the
\* entries of MaxEarlierRequests requests that were let through and created
\* no job; nothing else has happened
InitMiddleware ==
  /\ queue_redis = FALSE
  /\ jobs = [j \in {} |-> NoResp]
  /\ videos = {}
  /\ usage = [daily |-> [u \in Users |-> 0], monthly |-> [u \in Users |-> 0]]
  /\ redis_queues = [p \in QueuePriority |-> << >>]
  /\ local_queues = [p \in QueuePriority |-> << >>]
  /\ now = 0
  /\ creating = [j \in {} |-> NoCreate]
  /\ cancelling = [c \in 1 .. MaxCancels |-> NoCancel]
  /\ worker = IdleWorker
  /\ resp = NoResp
  /\ cancel_returned = {}
  /\ pq_enqueued = [j \in {} |-> ""]
  /\ pq_calls = [c \in 1 .. MaxQueueCalls |-> NoQueueCall]
  /\ pq_ret = NoQueueRet
  /\ rl_redis \in BOOLEAN
  /\ LET log == [k \in Keys |->
                   IF k = _get_key("user_dev_001", "/v1/generate")
                     THEN [i \in 1 .. MaxEarlierRequests |-> 0] ELSE << >>]
     IN /\ rate_limit = IF rl_redis THEN log ELSE [k \in Keys |-> << >>]
        /\ _local_counts = IF rl_redis THEN [k \in Keys |-> << >>] ELSE log
        /\ admitted = log
  /\ rl_calls = [c \in 1 .. MaxInflight |-> NoCall]
  /\ rl_result = NoResult
  /\ rl_reads = [c \in 1 .. MaxReads |-> NoRead]
  /\ rl_usage = NoResult

\* the middleware in front of POST /v1/generate, the limiter with or without
\* a store client whose calls can raise
SpecMiddleware == InitMiddleware /\ [][NextMiddleware(BOOLEAN)]_vars

\* an in-process rate limiter, nothing else in use
InitRLLocal == InitRL /\ rl_redis = FALSE

\* the in-process rate limiter under the checks of the free user at instants
\* that are not whole seconds
SpecRetry == InitRLLocal /\ [][NextRetry]_vars

\* the rate limiter under the requests of the free user
SpecRL == InitRL /\ [][NextRL({"user_free_001"}, {FALSE})]_vars

\* ------------------------------------------------------------- properties
\* C1: every change of a stored job's status is an edge of the transition
\* table; a job enters the store as PENDING, or as QUEUED when create_job ran
\* without suspending.
C1_StatusFollowsTable ==
  [][\A j \in DOMAIN jobs' :
       IF j \in DOMAIN jobs
         THEN jobs'[j].status # jobs[j].status
                => can_transition(jobs[j].status, jobs'[j].status)
         ELSE jobs'[j].status \in {"pending", "queued"}]_vars

\* the queues a job id is present in, over both backends
queues_holding(j) ==
  {p \in QueuePriority :
     \/ \E i \in 1 .. Len(redis_queues[p]) : redis_queues[p][i].id = j
     \/ \E i \in 1 .. Len(local_queues[p]) : local_queues[p][i].id = j}

\* the number of entries a job id has in the queue of one priority
entries_of(j, p) ==
  Cardinality({i \in 1 .. Len(redis_queues[p]) : redis_queues[p][i].id = j})
    + Cardinality({i \in 1 .. Len(local_queues[p]) : local_queues[p][i].id = j})

\* C2: each job id is present in at most one priority queue, once, and only
\* while the stored status of the job is QUEUED.
C2_QueuedIffInQueue ==
  \A j \in DOMAIN jobs :
    /\ Cardinality(queues_holding(j)) <= 1
    /\ \A p \in QueuePriority : entries_of(j, p) <= 1
    /\ queues_holding(j) # {} => jobs[j].status = "queued"

\* C3: no user has more non-terminal jobs than the tier's max_concurrent_jobs.
C3_ConcurrencyCap ==
  \A u \in Users :
    _count_active_jobs(u) <= get_tier_config(MOCK_USERS[u]).max_concurrent_jobs

\* C4: for every key and every instant t, the calls allowed with a timestamp
\* in the window (t - 60, t] are at most the tier's rate_limit_per_minute.
C4_WindowLimit ==
  \A k \in Keys, t \in Instants :
    Cardinality({i \in 1 .. Len(admitted[k]) :
                   t - 60 < admitted[k][i] /\ admitted[k][i] <= t})
      <= TIER_CONFIGS[MOCK_USERS[k[1]]].rate_limit_per_minute

\* C5: when dequeue returns no job, no job that was queued when the call began
\* is still queued (a queue that held a job gave it to this call or lost it
\* to a cancel or to another pop meanwhile).
C5_NoneOnlyWhenEmpty ==
  worker.pc = "sleep" => worker.snap \cap AllQueued = {}

\* C6: a job for which cancel_job has returned normally stays CANCELLED and
\* never has a video.
C6_CancelIsFinal ==
  \A j \in cancel_returned :
    /\ jobs[j].status = "cancelled"
    /\ \A v \in videos : v.job_id # j

\* C7: a cancel by the owner returns normally exactly when the job is PENDING
\* or QUEUED as the call completes; otherwise it raises JobCancelledError and
\* leaves the job store and every queue as they were; no job is cancelled
\* normally twice.
C7_CancelOutcome ==
  [][(/\ resp'.op = "cancel"
      /\ resp'.job \in DOMAIN jobs
      /\ jobs[resp'.job].user_id = resp'.user)
       => /\ resp'.result = "ok" <=> jobs[resp'.job].status \in {"pending", "queued"}
          /\ resp'.result # "ok"
               => /\ resp'.result = "JobCancelledError"
                  /\ UNCHANGED <<jobs, redis_queues, local_queues>>
          /\ resp'.result = "ok" => resp'.job \notin cancel_returned]_vars

\* C8: get_job and cancel_job by a user who does not own the job fail
\* (JobNotFoundError for an unknown id, else PermissionDeniedError) and
\* change neither the job store nor a queue; list_jobs lists only the
\* caller's jobs; no call of a client changes a job of another user.
C8_OwnerOnly ==
  /\ [](\A j \in JobIds, u \in Users :
          /\ j \notin DOMAIN jobs => get_job(j, u) = "JobNotFoundError"
          /\ j \in DOMAIN jobs /\ jobs[j].user_id # u
               => get_job(j, u) = "PermissionDeniedError")
  /\ [](\A u \in Users, st \in JobStatus \cup {""} :
          \A j \in list_jobs(u, st) : jobs[j].user_id = u)
  /\ [][(resp'.op = "cancel"
           /\ (resp'.job \notin DOMAIN jobs \/ jobs[resp'.job].user_id # resp'.user))
          => /\ resp'.result = IF resp'.job \in DOMAIN jobs
                                 THEN "PermissionDeniedError" ELSE "JobNotFoundError"
             /\ UNCHANGED <<jobs, redis_queues, local_queues>>]_vars
  /\ [][resp'.op # "none"
          => \A j \in DOMAIN jobs :
               jobs[j].user_id # resp'.user => jobs'[j] = jobs[j]]_vars

\* C8 is exercised: a cancel by another user than the owner of a QUEUED job
\* was answered with PermissionDeniedError.
C8_Witness ==
  /\ resp.op = "cancel"
  /\ resp.result = "PermissionDeniedError"
  /\ resp.job \in DOMAIN jobs
  /\ jobs[resp.job].user_id # resp.user
  /\ jobs[resp.job].status = "queued"

\* the four admission checks in the order of the contract, as whether each
\* fails for this request in the current state, and the error of each
C9_fails(u, d) ==
  LET cfg == TIER_CONFIGS[MOCK_USERS[u]]
  IN << ~cfg.can_generate,
        d > cfg.max_video_duration,
        cfg.daily_quota > 0 /\ usage.daily[u] >= cfg.daily_quota,
        Cardinality({j \in DOMAIN jobs :
                       jobs[j].user_id = u
                         /\ jobs[j].status \in {"pending", "queued", "processing"}})
          >= cfg.max_concurrent_jobs >>

C9_error(d) ==
  << <<"InsufficientTierError", "developer">>,
     <<"InsufficientTierError", IF d <= 120 THEN "pro" ELSE "enterprise">>,
     <<"QuotaExceededError", "daily">>,
     <<"QuotaExceededError", "concurrent_jobs">> >>

\* C9: the answer of create_job is the error of the first check that fails
\* in the order can_generate, duration, daily quota, concurrent jobs, and a
\* failing create_job stores no job, enqueues nothing and moves no counter.
C9_FirstFailingCheck ==
  [][resp'.op = "create"
       => LET fails == C9_fails(resp'.user, resp'.duration)
              failing == {i \in 1 .. 4 : fails[i]}
              first == CHOOSE i \in failing : \A k \in failing : i <= k
          IN IF failing = {}
               THEN resp'.result = "ok"
               ELSE /\ <<resp'.result, resp'.detail>> = C9_error(resp'.duration)[first]
                    /\ UNCHANGED <<jobs, videos, usage, redis_queues, local_queues,
                                   creating>>]_vars

\* C9 is exercised: a request of the developer that fails the duration check
\* and the concurrency check was answered with InsufficientTierError.
C9_Witness ==
  /\ resp.op = "create"
  /\ resp.user = "user_dev_001"
  /\ resp.result = "InsufficientTierError"
  /\ resp.duration > TIER_CONFIGS["developer"].max_video_duration
  /\ _count_active_jobs("user_dev_001") >= TIER_CONFIGS["developer"].max_concurrent_jobs

\* C10: no job of a FREE user is in the job store or in a queue; create_job
\* by a FREE user fails with InsufficientTierError, required tier developer;
\* a user of another tier whose request is within the tier's duration, daily
\* quota and concurrency is admitted and the job is stored as that user's.
C10_FreeNeverGenerates ==
  /\ [](\A j \in DOMAIN jobs : MOCK_USERS[jobs[j].user_id] # "free")
  /\ [](AllQueued \subseteq DOMAIN jobs)
  /\ [][(resp'.op = "create" /\ MOCK_USERS[resp'.user] = "free")
          => /\ resp'.result = "InsufficientTierError"
             /\ resp'.detail = "developer"
             /\ jobs' = jobs]_vars
  /\ [][(/\ resp'.op = "create"
         /\ MOCK_USERS[resp'.user] # "free"
         /\ resp'.duration <= TIER_CONFIGS[MOCK_USERS[resp'.user]].max_video_duration
         /\ (TIER_CONFIGS[MOCK_USERS[resp'.user]].daily_quota > 0
               => usage.daily[resp'.user]
                    < TIER_CONFIGS[MOCK_USERS[resp'.user]].daily_quota)
         /\ _count_active_jobs(resp'.user)
              < TIER_CONFIGS[MOCK_USERS[resp'.user]].max_concurrent_jobs)
          => /\ resp'.result = "ok"
             /\ resp'.job \in DOMAIN jobs' \ DOMAIN jobs
             /\ jobs'[resp'.job].user_id = resp'.user]_vars

\* C10 is exercised: a create_job of the free user was refused while a job of
\* another user is in the store.
C10_Witness ==
  /\ resp.op = "create"
  /\ MOCK_USERS[resp.user] = "free"
  /\ resp.result = "InsufficientTierError"
  /\ DOMAIN jobs # {}

\* C11 as stated, for the users of every tier: no stored job is longer than
\* its owner's max_video_duration, and every create_job with a longer duration
\* is answered with InsufficientTierError, required tier pro up to 120 s and
\* enterprise above.
C11_LongerDurationAnyTier ==
  /\ [](\A j \in DOMAIN jobs :
          jobs[j].duration
            <= TIER_CONFIGS[MOCK_USERS[jobs[j].user_id]].max_video_duration)
  /\ [][(/\ resp'.op = "create"
         /\ resp'.duration > TIER_CONFIGS[MOCK_USERS[resp'.user]].max_video_duration)
          => /\ resp'.result = "InsufficientTierError"
             /\ resp'.detail = IF resp'.duration <= 120 THEN "pro" ELSE "enterprise"]_vars

\* C11, for the users whose tier can generate: no stored job is longer than
\* its owner's max_video_duration, and a create_job of such a user with a
\* longer duration is answered with InsufficientTierError, required tier pro
\* up to 120 s and enterprise above (a free user is answered with required
\* tier developer whatever the duration).
C11_DurationWithinTier ==
  /\ [](\A j \in DOMAIN jobs :
          jobs[j].duration
            <= TIER_CONFIGS[MOCK_USERS[jobs[j].user_id]].max_video_duration)
  /\ [][(/\ resp'.op = "create"
         /\ TIER_CONFIGS[MOCK_USERS[resp'.user]].can_generate
         /\ resp'.duration > TIER_CONFIGS[MOCK_USERS[resp'.user]].max_video_duration)
          => /\ resp'.result = "InsufficientTierError"
             /\ resp'.detail = IF resp'.duration <= 120 THEN "pro" ELSE "enterprise"
             /\ jobs' = jobs]_vars

\* C11 is exercised: a job of the pro user at the tier's limit of 120 s is
\* stored, and a request of 121 s by that user was refused with required tier
\* enterprise.
C11_Witness ==
  /\ resp.op = "create"
  /\ resp.user = "user_pro_001"
  /\ resp.duration = 121
  /\ resp.result = "InsufficientTierError"
  /\ resp.detail = "enterprise"
  /\ \E j \in DOMAIN jobs : jobs[j].user_id = "user_pro_001" /\ jobs[j].duration = 120

\* C12: create_job is answered with QuotaExceededError("daily") exactly when
\* the can_generate and the duration check pass, the tier's daily_quota is
\* positive and the user's daily count has reached it; a request of the
\* enterprise user is never answered with it.
C12_DailyQuota ==
  [][resp'.op = "create"
       => LET cfg == TIER_CONFIGS[MOCK_USERS[resp'.user]]
          IN /\ (resp'.result = "QuotaExceededError" /\ resp'.detail = "daily")
                  <=> /\ cfg.can_generate
                      /\ resp'.duration <= cfg.max_video_duration
                      /\ cfg.daily_quota > 0
                      /\ usage.daily[resp'.user] >= cfg.daily_quota
             /\ MOCK_USERS[resp'.user] = "enterprise"
                  => ~(resp'.result = "QuotaExceededError" /\ resp'.detail = "daily")]_vars

\* C12 is exercised: the developer was refused for the daily quota after the
\* job that used it up, and the enterprise user has a job admitted with a
\* daily count far above every quota.
C12_Witness ==
  /\ resp.op = "create"
  /\ resp.user = "user_dev_001"
  /\ resp.result = "QuotaExceededError"
  /\ resp.detail = "daily"
  /\ usage.daily["user_dev_001"] = TIER_CONFIGS["developer"].daily_quota
  /\ usage.daily["user_ent_001"] >= TIER_CONFIGS["pro"].daily_quota
  /\ \E j \in DOMAIN jobs : jobs[j].user_id = "user_ent_001"

\* a check_and_increment of user u on endpoint e with timestamp t returns in
\* this step
rl_call_returns(u, e, t) ==
  \/ ~rl_redis /\ t = now /\ check_and_increment(u, e)
  \/ \E c \in 1 .. MaxInflight :
       /\ rl_calls[c].key = _get_key(u, e)
       /\ rl_calls[c].now = t
       /\ \E fails \in BOOLEAN : _check_redis(c, fails)

\* C13: when no other call of the limiter is under way and every call allowed
\* so far for the key lies in the window of the returning call (the log
\* started empty and the calls follow each other within one window), the call after n allowed ones is allowed with
\* remaining = limit - (n + 1) while n < limit, and is denied with
\* remaining = 0 once n = limit.
C13_RemainingCountsDown ==
  [][\A u \in RLUsers, e \in Endpoints, t \in Instants \cup {0} :
       LET k == _get_key(u, e)
           n == Len(admitted[k])
           limit == TIER_CONFIGS[MOCK_USERS[u]].rate_limit_per_minute
       IN (/\ rl_call_returns(u, e, t)
           /\ \A c \in 1 .. MaxInflight : rl_calls'[c] = NoCall
           /\ \A i \in 1 .. n : t - 60 < admitted[k][i] /\ admitted[k][i] <= t)
            => IF n < limit
                 THEN rl_result'.allowed /\ rl_result'.remaining = limit - (n + 1)
                 ELSE ~rl_result'.allowed /\ rl_result'.remaining = 0]_vars

\* C13 is exercised: the free user's call number 11 within one window was
\* denied with remaining 0 after 10 allowed calls.
C13_Witness ==
  LET k == _get_key("user_free_001", "/v1/jobs")
  IN /\ Len(admitted[k]) = 10
     /\ \A i \in 1 .. 10 : now - 60 < admitted[k][i] /\ admitted[k][i] <= now
     /\ rl_result.limit = 10
     /\ ~rl_result.allowed
     /\ rl_result.remaining = 0
     /\ \A c \in 1 .. MaxInflight : rl_calls[c] = NoCall

\* the log of a key in the backend in use, and its entries not expired at t
rl_log(k) == IF rl_redis THEN rate_limit[k] ELSE _local_counts[k]
rl_live(log, t) == SelectSeq(log, LAMBDA ts : ts > t - window_seconds)

\* C14: a call that returns allowed = false adds nothing: the entries of the
\* key not expired at the call's timestamp and the calls counted as allowed
\* are as before, and the same call made again on the state it left returns
\* the same allowed, remaining and reset_at and leaves the log as it is.
C14_DeniedInsertsNothing ==
  [][\A u \in RLUsers, e \in Endpoints, t \in Instants \cup {0} :
       LET k == _get_key(u, e)
           limit == TIER_CONFIGS[MOCK_USERS[u]].rate_limit_per_minute
           log2 == IF rl_redis THEN rate_limit'[k] ELSE _local_counts'[k]
           script == RATE_LIMIT_SCRIPT(log2, window_seconds, limit, t)
           local == _check_local(log2, limit, t)
       IN (rl_call_returns(u, e, t) /\ ~rl_result'.allowed)
            => /\ rl_live(log2, t) = rl_live(rl_log(k), t)
               /\ admitted' = admitted
               /\ IF rl_redis
                    THEN /\ script.set = log2
                         /\ RateLimitResult(script.ret[1] = 1, limit, script.ret[2],
                                            script.ret[3]) = rl_result'
                    ELSE /\ local.list = log2
                         /\ local.result = rl_result']_vars

\* C14 is exercised: a call of the free user at time 60 was denied by the
\* shared store with the oldest of 10 entries at time 1.
C14_Witness ==
  /\ rl_redis
  /\ now = 60
  /\ ~rl_result.allowed
  /\ rl_result.reset_at = 1 + window_seconds
  /\ Len(rate_limit[_get_key("user_free_001", "/v1/jobs")]) = 10

\* a step of a get_current_usage call of user u on endpoint e with timestamp
\* t, and the step in which that call returns
usage_steps(u, e, t) ==
  \/ t = now /\ get_current_usage(u, e)
  \/ \E c \in 1 .. MaxReads, fails \in BOOLEAN :
       /\ rl_reads[c].key = _get_key(u, e)
       /\ rl_reads[c].now = t
       /\ get_current_usage_purged(c, fails) \/ get_current_usage_counted(c, fails)

usage_returns(u, e, t) == usage_steps(u, e, t) /\ rl_usage' # NoResult

\* C15: get_current_usage inserts nothing (each of its steps leaves the log
\* of the key as it was or without the entries expired at the call's
\* timestamp, and counts no call as allowed); it returns remaining =
\* max(0, limit - entries of the key not expired at its timestamp); made again
\* at the same instant on the state it left it returns the same remaining;
\* and a check_and_increment made afterwards returns what it would have
\* returned without the inspection.
C15_UsageIsReadOnly ==
  [][\A u \in RLUsers, e \in Endpoints, t \in Instants \cup {0} :
       LET k == _get_key(u, e)
           limit == TIER_CONFIGS[MOCK_USERS[u]].rate_limit_per_minute
           log2 == IF rl_redis THEN rate_limit'[k] ELSE _local_counts'[k]
           live == Len(rl_live(log2, t))
       IN /\ usage_steps(u, e, t)
               => /\ admitted' = admitted
                  /\ log2 \in {rl_log(k), rl_live(rl_log(k), t)}
                  /\ \A t2 \in Instants \cup {0} :
                       t2 >= now
                         => IF rl_redis
                              THEN RATE_LIMIT_SCRIPT(log2, window_seconds, limit, t2)
                                     = RATE_LIMIT_SCRIPT(rl_log(k), window_seconds,
                                                         limit, t2)
                              ELSE _check_local(log2, limit, t2)
                                     = _check_local(rl_log(k), limit, t2)
          /\ usage_returns(u, e, t)
               => /\ rl_usage'.remaining = IF limit - live > 0 THEN limit - live ELSE 0
                  /\ usage_local(log2, limit, t).result.remaining = rl_usage'.remaining
                  /\ usage_local(log2, limit, t).list = rl_live(log2, t)]_vars

\* C16: a check_and_increment of one (user, endpoint) leaves the log of every
\* other key as it was, in the store and in the process, and counts no call
\* of another key as allowed; a call is denied only when the log of its own
\* key holds as many unexpired entries as the tier's limit.
C16_KeysAreSeparate ==
  [][\A u \in RLUsers, e \in Endpoints :
       LET limit == TIER_CONFIGS[MOCK_USERS[u]].rate_limit_per_minute
           step == \/ check_and_increment(u, e)
                   \/ \E c \in 1 .. MaxInflight, fails \in BOOLEAN :
                        rl_calls[c].key = <<u, e>> /\ _check_redis(c, fails)
       IN step
            => /\ \A k2 \in DOMAIN rate_limit \ {<<u, e>>} :
                    /\ rate_limit'[k2] = rate_limit[k2]
                    /\ _local_counts'[k2] = _local_counts[k2]
                    /\ admitted'[k2] = admitted[k2]
               /\ (rl_result' # NoResult /\ ~rl_result'.allowed)
                    => Len(IF rl_redis THEN rate_limit'[<<u, e>>]
                           ELSE _local_counts'[<<u, e>>]) >= limit]_vars

\* C16 is exercised: the free user's limit of 10 is used up and a call of the
\* developer was allowed with 29 of 30 remaining.
C16_Witness ==
  /\ Len(admitted[<<"user_free_001", "/v1/jobs">>]) = 10
  /\ Len(admitted[<<"user_dev_001", "/v1/jobs">>]) = 1
  /\ rl_result.allowed
  /\ rl_result.limit = 30
  /\ rl_result.remaining = 29

\* C17: a check_and_increment whose store call raises returns allowed = true
\* with remaining = limit - 1 and reset_at = the call's timestamp + 60, and
\* changes neither the in-process log nor the log in the store.
C17_FailsOpen ==
  [][\A c \in 1 .. MaxInflight :
       (rl_calls[c] # NoCall /\ _check_redis(c, TRUE))
         => LET limit ==
                  TIER_CONFIGS[MOCK_USERS[rl_calls[c].key[1]]].rate_limit_per_minute
            IN /\ rl_result'.allowed
               /\ rl_result'.limit = limit
               /\ rl_result'.remaining = limit - 1
               /\ rl_result'.reset_at = rl_calls[c].now + 60
               /\ _local_counts' = _local_counts
               /\ rate_limit' = rate_limit]_vars

\* C17 is exercised: with the free user's 10 entries of the window in the
\* store, a call whose store call raised was allowed with remaining 9.
C17_Witness ==
  LET k == <<"user_free_001", "/v1/jobs">>
  IN /\ rl_redis
     /\ Len(rate_limit[k]) = 10
     /\ \A i \in 1 .. 10 : rate_limit[k][i] > now - 60
     /\ Len(admitted[k]) = 11
     /\ rl_result.allowed
     /\ rl_result.remaining = 9
     /\ _local_counts[k] = << >>

\* ------------------------------------------------------------------- C18
\* the bucket a draw selects
selected_bucket(choice) == priorities[select_bucket(choice, 1, 0)]

\* job_id is in q and no entry of q has a lower score
lowest_score(q, job_id) ==
  \E i \in 1 .. Len(q) :
    q[i].id = job_id /\ \A k \in 1 .. Len(q) : q[i].score <= q[k].score

\* qs2 is qs with job_id taken out of bucket p and nothing else changed
popped_from(qs, qs2, p, job_id) ==
  /\ qs2[p] = SelectSeq(qs[p], LAMBDA e : e.id # job_id)
  /\ Len(qs2[p]) = Len(qs[p]) - 1
  /\ \A o \in QueuePriority \ {p} : qs2[o] = qs[o]

\* C18: the draws are 1..16; draws 1..10 select CRITICAL, 11..15 HIGH and 16
\* NORMAL; and whenever dequeue finds the selected bucket non-empty, it
\* returns a job of that bucket with the lowest score, removes it and leaves
\* the two other buckets as they were, in the in-process queue and on the store.
C18_SelectedBucket ==
  /\ [](/\ total_weight = 16
        /\ \A r \in 1 .. 16 :
             selected_bucket(r) = IF r <= 10 THEN "critical"
                                  ELSE IF r <= 15 THEN "high" ELSE "normal")
  /\ [][\A choice \in 1 .. total_weight :
          LET sel == selected_bucket(choice)
          IN /\ worker_dequeue_local(choice) /\ Len(local_queues[sel]) > 0
                  => LET ret == _dequeue_local(local_queues, choice).ret
                     IN /\ lowest_score(local_queues[sel], ret)
                        /\ popped_from(local_queues, local_queues', sel, ret)
             /\ worker_dequeue(choice, FALSE) /\ Len(redis_queues[sel]) > 0
                  => /\ lowest_score(redis_queues[sel], worker'.job)
                     /\ popped_from(redis_queues, redis_queues', sel, worker'.job)]_vars

\* the pop of the selected set has returned a job while another set holds one
C18_Witness ==
  /\ worker.pc = "pop" /\ worker.idx = 0 /\ worker.job # None
  /\ \E p \in QueuePriority : Len(redis_queues[p]) > 0

\* ------------------------------------------------------------------- C19
\* the index in the fixed order of the first bucket of qs that holds a job,
\* None when every bucket is empty
first_non_empty(qs) ==
  IF \A i \in 1 .. Len(priorities) : Len(qs[priorities[i]]) = 0 THEN None
  ELSE CHOOSE i \in 1 .. Len(priorities) :
         /\ Len(qs[priorities[i]]) > 0
         /\ \A k \in 1 .. i - 1 : Len(qs[priorities[k]]) = 0

\* the number of jobs in the buckets of qs
queued_count(qs) ==
  Len(qs["critical"]) + Len(qs["high"]) + Len(qs["normal"])

\* C19: when the selected bucket is empty, dequeue returns a lowest-score job
\* of the first non-empty bucket in the order CRITICAL, HIGH, NORMAL and
\* removes that job only (None and no change when every bucket is empty); a
\* dequeue that returns a job takes exactly one job out of the queues.  On the
\* store the buckets are examined one pop at a time: the pop of an empty
\* selected set changes nothing, the walk examines the sets in the fixed order,
\* passes a set only if it is empty when examined, and no job has left the
\* queues in this call when a set is examined.
C19_FallbackOrder ==
  [][/\ \A choice \in 1 .. total_weight :
          LET sel == selected_bucket(choice)
              r == _dequeue_local(local_queues, choice)
              first == first_non_empty(local_queues)
          IN /\ worker_dequeue_local(choice)
                  => /\ queued_count(local_queues')
                          = queued_count(local_queues) - (IF r.ret = None THEN 0 ELSE 1)
                     /\ Len(local_queues[sel]) = 0
                          => IF first = None
                               THEN r.ret = None /\ local_queues' = local_queues
                               ELSE /\ lowest_score(local_queues[priorities[first]], r.ret)
                                    /\ popped_from(local_queues, local_queues',
                                                   priorities[first], r.ret)
             /\ worker_dequeue(choice, FALSE) /\ Len(redis_queues[sel]) = 0
                  => /\ worker'.job = None /\ worker'.idx = 0
                     /\ redis_queues' = redis_queues
     /\ worker_pop_next(FALSE)
          => LET p == priorities[worker.idx + 1]
             IN /\ worker.job = None
                /\ worker'.idx = worker.idx + 1
                /\ IF Len(redis_queues[p]) = 0
                     THEN worker'.job = None /\ redis_queues' = redis_queues
                     ELSE /\ lowest_score(redis_queues[p], worker'.job)
                          /\ popped_from(redis_queues, redis_queues', p, worker'.job)
     /\ worker_dequeue_none => queued_count(redis_queues') = queued_count(redis_queues)
     /\ worker_process => /\ redis_queues' = redis_queues
                          /\ local_queues' = local_queues]_vars

\* the walk has passed the CRITICAL set and popped a job from a later one
C19_Witness ==
  /\ worker.pc = "pop" /\ worker.job # None /\ worker.idx # None /\ worker.idx >= 2

\* ------------------------------------------------------------------- C20
\* the jobs dequeue has returned: a job leaves its queue through dequeue or
\* through remove only, so these are the jobs whose enqueue has put them in
\* their queue, that are in no queue now and that no remove has taken out
pq_dequeued ==
  {j \in DOMAIN pq_enqueued :
     /\ ~pq_enqueued[j].removed
     /\ \A c \in 1 .. MaxQueueCalls :
          ~(pq_calls[c].pc = "enqueue" /\ pq_calls[c].job = j)
     /\ \A p \in QueuePriority :
          /\ \A i \in 1 .. Len(redis_queues[p]) : redis_queues[p][i].id # j
          /\ \A i \in 1 .. Len(local_queues[p]) : local_queues[p][i].id # j}

\* job a is returned after a job of its priority whose enqueue took a
\* strictly larger timestamp
served_out_of_order(a) ==
  \E b \in pq_dequeued \ {a} :
    /\ pq_enqueued[b].priority = pq_enqueued[a].priority
    /\ pq_enqueued[b].score > pq_enqueued[a].score

\* C20: of two jobs of the same priority, dequeue returns the one whose
\* enqueue took the strictly smaller timestamp before the other, whatever
\* the interleaving of the enqueue, dequeue and remove calls: no dequeue
\* returns a job after a job of its priority with a larger timestamp.
C20_FifoByTimestamp ==
  /\ [](worker.pc = "pop" /\ worker.job # None => ~served_out_of_order(worker.job))
  /\ [][\A choice \in 1 .. total_weight :
          worker_dequeue_local(choice)
            => LET ret == _dequeue_local(local_queues, choice).ret
               IN ret # None => ~served_out_of_order(ret)]_vars

\* ------------------------------------------------------------------- C21
\* job j waits in the in-process queue
in_local_queue(j) ==
  \E p \in QueuePriority : \E i \in 1 .. Len(local_queues[p]) : local_queues[p][i].id = j

\* C21: no priority class is starved.  With a worker that keeps calling
\* dequeue and a draw that selects every bucket again and again, every job
\* that waits in the in-process queue is eventually returned by dequeue unless
\* a remove call takes it out, whatever its priority and however many jobs of
\* the other priorities keep arriving.
C21_NoStarvation ==
  \A j \in 1 .. MaxArrivalIds :
    in_local_queue(j) ~> (j \in pq_dequeued \/ (j \in DOMAIN pq_enqueued /\ pq_enqueued[j].removed))

\* a NORMAL job has been returned by dequeue while CRITICAL and HIGH jobs wait
C21_Witness ==
  /\ \E j \in pq_dequeued : pq_enqueued[j].priority = "normal"
  /\ Len(local_queues["critical"]) > 0
  /\ Len(local_queues["high"]) > 0

\* ------------------------------------------------------------------- C22
\* the 1-indexed rank of job_id in q, a queue in ascending order of score
rank_in(q, job_id) ==
  CHOOSE k \in 1 .. Len(q) : q[k].id = job_id

\* C22: the position enqueue obtains for a job is the job's 1-indexed rank in
\* the queue of its priority right after the insertion, which is what
\* get_position returns for it at that moment: in the in-process queue, in the
\* sorted set of the store, and in the in-process queue when the store call
\* raised and the job's score is not the largest there.
C22_PositionIsRank ==
  [][/\ \A j \in DOMAIN pq_enqueued', p \in QueuePriority :
          enqueue(j, p) /\ ~queue_redis
            => /\ pq_ret'.position = rank_in(local_queues'[p], j)
               /\ pq_ret'.position = position_local(local_queues'[p], j)
     /\ \A c \in 1 .. MaxQueueCalls, fails \in BOOLEAN :
          _enqueue_redis(c, fails)
            => LET call == pq_calls[c]
               IN IF fails
                    THEN /\ pq_calls'[c].position
                              = rank_in(local_queues'[call.priority], call.job)
                         /\ pq_calls'[c].position
                              = position_local(local_queues'[call.priority], call.job)
                    ELSE /\ pq_calls'[c].position
                              = rank_in(redis_queues'[call.priority], call.job)
                         /\ pq_calls'[c].position
                              = QUEUE_POSITION_SCRIPT(redis_queues'[call.priority],
                                                      call.job)]_vars

\* ------------------------------------------------------------------- C23
\* C23: the in-process implementation and the one on the store return the
\* same result for every call of a same sequence of check_and_increment,
\* enqueue, dequeue, remove and get_position calls made with the same clock
\* and the same draws, equal scores and repeated job ids included.
C23_BackendsReturnTheSame ==
  pq_ret.op # "none" => pq_ret.shared = pq_ret.local

\* ------------------------------------------------------------------- C24
\* C24: when a store call raises during a queue operation, the operation is
\* carried out on the in-process queue and loses no job: an enqueue whose
\* store call raised has put its job in the in-process queue of its priority,
\* a remove whose store call raised has taken the job out of the in-process
\* queue, and dequeue serves the jobs held in the in-process queue: it does
\* not return None while the in-process queue holds a job.
C24_FallbackLosesNoJob ==
  [][/\ \A c \in 1 .. MaxQueueCalls :
          /\ _enqueue_redis(c, TRUE)
               => /\ position_local(local_queues'[pq_calls[c].priority],
                                    pq_calls[c].job) # None
                  /\ redis_queues' = redis_queues
          /\ remove_zrem(c, TRUE)
               => /\ position_local(local_queues'[pq_calls[c].priority],
                                    pq_calls[c].job) = None
                  /\ redis_queues' = redis_queues
     /\ worker_dequeue_none => queued_count(local_queues) = 0]_vars

\* ------------------------------------------------------------------- C25
\* twice the wait the statement gives for position p of priority pr when the
\* CRITICAL queue holds c jobs and the HIGH queue h jobs: 30*(p-1), plus 15*c
\* for HIGH, plus 9*c + 4.5*h for NORMAL
twice_stated_wait(p, pr, c, h) ==
  IF pr = "critical" THEN 60 * (p - 1)
  ELSE IF pr = "high" THEN 60 * (p - 1) + 30 * c
  ELSE 60 * (p - 1) + 18 * c + 9 * h

\* C25: the wait estimate enqueue returns for position p in priority pr, with
\* c jobs in the CRITICAL queue and h in the HIGH queue when the lengths are
\* read, is 30*(p-1) for CRITICAL, 30*(p-1) + 15*c for HIGH and
\* 30*(p-1) + 9*c + 4.5*h for NORMAL.
C25_WaitEstimate ==
  [][/\ \A j \in DOMAIN pq_enqueued', pr \in QueuePriority :
          enqueue(j, pr) /\ ~queue_redis
            => 2 * pq_ret'.estimated_wait_seconds
                 = twice_stated_wait(pq_ret'.position, pr,
                                     Len(local_queues'["critical"]),
                                     Len(local_queues'["high"]))
     /\ \A c \in 1 .. MaxQueueCalls :
          enqueue_return(c, FALSE)
            => 2 * pq_ret'.estimated_wait_seconds
                 = twice_stated_wait(pq_ret'.position, pq_ret'.priority,
                                     ZCARD(redis_queues["critical"]),
                                     ZCARD(redis_queues["high"]))]_vars

\* ------------------------------------------------------------------- C26
\* the jobs of user u that become COMPLETED in a step
newly_completed(u) ==
  {j \in DOMAIN jobs' :
     /\ jobs'[j].user_id = u /\ jobs'[j].status = "completed"
     /\ (j \notin DOMAIN jobs \/ jobs[j].status # "completed")}

\* C26: in every reachable state a COMPLETED job has its video_id set and
\* progress 1, exactly one video was created for it, that video is the one
\* video_id names and its owner is the job's user; each step raises the daily
\* and the monthly counter of a user by one for each of that user's jobs that
\* becomes COMPLETED in it and by nothing else; and a job for which a video
\* was stored and usage recorded is COMPLETED, not FAILED or CANCELLED.
C26_CompletedJobs ==
  /\ [](/\ \A j \in DOMAIN jobs :
             jobs[j].status = "completed"
               => /\ jobs[j].video_id # None
                  /\ jobs[j].progress = 1
                  /\ Cardinality({v \in videos : v.job_id = j}) = 1
                  /\ \A v \in videos :
                       v.job_id = j => /\ v.id = jobs[j].video_id
                                       /\ v.owner_id = jobs[j].user_id
        /\ \A v \in videos : jobs[v.job_id].status = "completed")
  /\ [][\A u \in Users :
          /\ usage'.daily[u] = usage.daily[u] + Cardinality(newly_completed(u))
          /\ usage'.monthly[u] = usage.monthly[u] + Cardinality(newly_completed(u))]_vars

\* ------------------------------------------------------------------- C27
\* C27: when the generator raises, with a GenerationError or with anything
\* else, while the worker processes a job, the job is written back as FAILED
\* with error and completed_at set, no video is stored, no usage is recorded,
\* and the worker is back at the top of its loop, ready for the next dequeue.
C27_GeneratorFailure ==
  [][\A error \in {"GenerationError", "Exception"} :
       worker_generate_fail(error)
         => /\ jobs'[worker.job].status = "failed"
            /\ jobs'[worker.job].error = error
            /\ jobs'[worker.job].completed_at = now
            /\ jobs'[worker.job].video_id = jobs[worker.job].video_id
            /\ \A j \in DOMAIN jobs \ {worker.job} : jobs'[j] = jobs[j]
            /\ videos' = videos
            /\ usage' = usage
            /\ worker' = IdleWorker]_vars

\* a job has FAILED and the worker is processing a later job
C27_Witness ==
  /\ worker.pc = "generate"
  /\ \E j \in DOMAIN jobs : j # worker.job /\ jobs[j].status = "failed"

\* ------------------------------------------------------------------- C28
\* C28: a job that is PROCESSING when the worker is stopped still reaches
\* COMPLETED or FAILED.
C28_InFlightJobCompletes ==
  \A j \in JobIds :
    (worker.pc = "stopped" /\ j \in DOMAIN jobs /\ jobs[j].status = "processing")
      ~> (j \in DOMAIN jobs /\ jobs[j].status \in {"completed", "failed"})

\* ------------------------------------------------------------------- C29
\* the remaining count a check of the key would report now
remaining_seen(k) ==
  LET limit == get_tier_config(MOCK_USERS[k[1]]).rate_limit_per_minute
  IN IF rl_redis
       THEN RATE_LIMIT_SCRIPT(rate_limit[k], window_seconds, limit, now).ret[2]
       ELSE _check_local(_local_counts[k], limit, now).result.remaining

\* C29: a request to an excluded path, or one whose X-API-Key is absent or is
\* the key of no user, calls no check: no rate-limit log gets an entry, no
\* check is left suspended, the answer is not the 429 of the middleware, and
\* the remaining count of every key is what it was.
C29_NoAccounting ==
  [][(\E path \in RequestPaths, api_key \in Headers, d \in Durations :
        /\ \/ path \in EXCLUDED_PATHS
           \/ api_key = NoHeader
           \/ api_key \notin DOMAIN API_KEYS
        /\ dispatch(path, api_key, d))
         => /\ rate_limit' = rate_limit
            /\ _local_counts' = _local_counts
            /\ rl_calls' = rl_calls
            /\ rl_result' = NoResult
            /\ resp'.result # "TooManyRequestsError"
            /\ \A k \in Keys : remaining_seen(k)' = remaining_seen(k)]_vars

\* a request with the key of no user has been answered by the endpoint after
\* the developer's window had filled up
C29_Witness ==
  /\ resp.result = "InvalidAPIKeyError"
  /\ remaining_seen(_get_key("user_dev_001", "/v1/generate")) = 0
  /\ Len(jobs) > 0

\* ------------------------------------------------------------------- C30
\* a step in which a check returns a denial
denied_now == rl_result' # NoResult /\ ~rl_result'.allowed

\* the requests waiting in call_next for their handler
in_call_next ==
  {c \in DOMAIN rl_calls : rl_calls[c] # NoCall /\ rl_calls[c].pc = "call_next"}

\* a denied request is answered 429 and its handler is not invoked: no job is
\* stored, nothing is enqueued, no store changes
C30_DeniedShortCircuits ==
  denied_now
    => /\ resp'.result = "TooManyRequestsError"
       /\ in_call_next' \subseteq in_call_next
       /\ UNCHANGED <<jobs, videos, usage, local_queues, redis_queues, creating,
                      pq_vars>>

priority_of_tier(tier) ==
  CASE tier = "enterprise" -> "critical"
    [] tier = "pro" -> "high"
    [] tier = "developer" -> "normal"
    [] OTHER -> "none"

\* C31: the priority of a stored job is the image of its owner's tier, it is
\* the same after every step, and the job's id is in no queue of another
\* priority, so that every insertion and every removal of the id happens in
\* the queue of the job's priority.
C31_PriorityFixed ==
  /\ [](\A j \in DOMAIN jobs :
          /\ jobs[j].priority = priority_of_tier(MOCK_USERS[jobs[j].user_id])
          /\ queues_holding(j) \subseteq {jobs[j].priority})
  /\ [][\A j \in DOMAIN jobs :
          /\ jobs'[j].priority = jobs[j].priority
          /\ \A p \in QueuePriority \ {jobs[j].priority} :
               entries_of(j, p)' = 0 /\ entries_of(j, p) = 0]_vars

\* an enterprise job has been taken out of the critical queue by a cancel and
\* a pro or developer job has been created
C31_Witness ==
  /\ \E j \in DOMAIN jobs :
       /\ jobs[j].priority = "critical"
       /\ jobs[j].status = "cancelled"
       /\ queues_holding(j) = {}
  /\ \E j \in DOMAIN jobs : jobs[j].priority # "critical"

\* ------------------------------------------------------------------- C32
\* the job for which create_job returns in this step
created_now(j) ==
  /\ resp'.op = "create" /\ resp'.result = "ok" /\ resp'.job = j
  /\ j \in DOMAIN creating

\* C32: a job enters the store as PENDING and in no queue; when create_job
\* returns it, the stored job, which is the one returned, is QUEUED, has
\* queued_at set, has the position that the enqueue returned as its
\* queue_position and the estimate returned with that position as its
\* estimated_wait_seconds.
C32_ReturnedJobIsQueued ==
  [][\A j \in DevJobIds :
       /\ (j \notin DOMAIN jobs /\ j \in DOMAIN jobs')
            => /\ jobs'[j].status = "pending"
               /\ queues_holding(j)' = {}
               /\ j \in DOMAIN creating' /\ creating'[j].pc = "enqueue"
       /\ created_now(j)
            => /\ jobs'[j].status = "queued"
               /\ jobs'[j].queued_at = now
               /\ jobs'[j].queue_position = creating[j].position
               /\ creating[j].position # None
               /\ jobs'[j].estimated_wait_seconds =
                    _estimate_wait(creating[j].position, jobs[j].priority,
                                   get_queue_lengths(FALSE))
               /\ j \notin DOMAIN creating']_vars

\* create_job has returned a job that is not the first of its queue and has
\* to wait
C32_Witness ==
  /\ resp.op = "create" /\ resp.result = "ok"
  /\ jobs[resp.job].queue_position > 1
  /\ jobs[resp.job].estimated_wait_seconds > 0

\* ------------------------------------------------------------------- C33
\* C33: when _process_job starts on an id that is absent from the job store
\* or whose stored job is not QUEUED, no job changes, the generator is not
\* invoked (the worker is back at the top of its loop), no video is stored and
\* no usage is recorded.
C33_InvalidJobIsSkipped ==
  [][(/\ worker_process
      /\ \/ worker.job \notin DOMAIN jobs
         \/ jobs[worker.job].status # "queued")
       => /\ jobs' = jobs
          /\ videos' = videos
          /\ usage' = usage
          /\ worker' = IdleWorker]_vars

\* the worker has popped and dropped the stale id, and has popped and dropped
\* a stored job that was still PENDING: its create_job is past the enqueue and
\* its id is in the queue no more
C33_Witness ==
  /\ worker = IdleWorker
  /\ \A p \in QueuePriority : ZRANK(redis_queues[p], StaleJobId) = None
  /\ \E j \in DOMAIN jobs :
       /\ jobs[j].status = "pending"
       /\ queues_holding(j) = {}
       /\ j \in DOMAIN creating /\ creating[j].pc = "estimate"

\* ------------------------------------------------------------------- C34
\* the jobs that are PROCESSING
processing_jobs == {j \in DOMAIN jobs : jobs[j].status = "processing"}

\* C34: at most one job is PROCESSING, it is the job the worker is
\* generating, and a step in which the worker dequeues is taken only when no
\* job is PROCESSING.
C34_Sequential ==
  /\ [](/\ Cardinality(processing_jobs) <= 1
        /\ processing_jobs \subseteq
             (IF worker.pc = "generate" THEN {worker.job} ELSE {}))
  /\ [][(\E choice \in 1 .. total_weight : worker_dequeue_local(choice))
          => processing_jobs = {}]_vars

\* one job is COMPLETED or FAILED and the worker is generating the next
C34_Witness ==
  /\ \E j \in DOMAIN jobs : jobs[j].status \in {"completed", "failed"}
  /\ Cardinality(processing_jobs) = 1

\* ------------------------------------------------------------------- C35
\* the log of the free user's key on the clock of ticks
free_log == _local_counts[_get_key("user_free_001", "/v1/jobs")]

\* C35: after a denied check, with s_min the oldest entry left in the log,
\* reset_at is the floor in seconds of s_min + 60 s, the check was made before
\* s_min + 60 s, retry_after read then or at any later instant is within
\* 0 .. 60, and a check of the same log at any instant from s_min + 60 s on is
\* admitted.
C35_ResetAtOldest ==
  (rl_result # NoResult /\ ~rl_result.allowed)
    => /\ Len(free_log) > 0
       /\ LET s_min == min(free_log)
          IN /\ \A i \in 1 .. Len(free_log) : s_min <= free_log[i]
             /\ \E i \in 1 .. Len(free_log) : s_min = free_log[i]
             /\ rl_result.reset_at * ClockResolution <= s_min + window_ticks
             /\ s_min + window_ticks < (rl_result.reset_at + 1) * ClockResolution
             /\ now < s_min + window_ticks
             /\ \A t \in RetryInstants \cup {now} :
                  t >= now => retry_after(rl_result, t) \in 0 .. window_seconds
             /\ \A t \in RetryInstants :
                  t >= s_min + window_ticks
                    => _check_local_ticks(free_log, rl_result.limit, t).result.allowed

\* a check was denied when the oldest entry was not made at a whole second
\* and the newest entry was made later than the oldest
C35_Witness ==
  /\ rl_result # NoResult /\ ~rl_result.allowed
  /\ Len(free_log) > 0
  /\ min(free_log) % ClockResolution # 0
  /\ free_log[Len(free_log)] > min(free_log)
  /\ now > free_log[Len(free_log)]

\* ------------------------------------------------------------------- C36
\* C36: every job that create_job has returned reaches COMPLETED, FAILED or
\* CANCELLED.
C36_ReturnedJobTerminates ==
  \A j \in SharedJobIds :
    (j \in DOMAIN jobs /\ j \notin DOMAIN creating)
      ~> (j \in DOMAIN jobs /\ jobs[j].status \in {"completed", "failed", "cancelled"})

\* ------------------------------------------------------------------- C37
\* C37: for every user whose tier has a daily quota, the daily usage counter
\* is at most daily_quota + max_concurrent_jobs - 1.
C37_DailyBound ==
  \A u \in Users :
    LET tier_config == get_tier_config(MOCK_USERS[u])
    IN tier_config.daily_quota > 0
         => usage.daily[u] <= tier_config.daily_quota + tier_config.max_concurrent_jobs - 1

\* ------------------------------------------------------------------- C38
\* C38: a batch request admits its items one by one in request order, each
\* against the jobs and the queue left by the items before it; when the k-th
\* item is refused the request is answered with that error and the k-1 jobs
\* admitted before it stay stored, QUEUED and in their queue, behind the
\* entries that were there, in request order.
C38_BatchNotAtomic ==
  [][(resp'.op = "batch" /\ batch_generate_videos(resp'.user, resp'.requests))
       => LET user == resp'.user
              requests == resp'.requests
              tier_config == get_tier_config(MOCK_USERS[user])
              p == priority_of_tier(MOCK_USERS[user])
              base == Cardinality(DOMAIN jobs)
              refused(i) ==
                \/ requests[i] > tier_config.max_video_duration
                \/ tier_config.daily_quota > 0
                     /\ usage.daily[user] >= tier_config.daily_quota
                \/ _count_active_jobs(user) + (i - 1) >= tier_config.max_concurrent_jobs
              failing == {i \in 1 .. Len(requests) : refused(i)}
              k == IF failing = {} THEN Len(requests) + 1
                   ELSE CHOOSE i \in failing : \A m \in failing : i <= m
          IN IF MOCK_USERS[user] \notin {"pro", "enterprise"}
               THEN /\ resp'.result = "InsufficientTierError"
                    /\ jobs' = jobs /\ local_queues' = local_queues
               ELSE /\ DOMAIN jobs' = DOMAIN jobs \cup (base + 1 .. base + k - 1)
                    /\ \A j \in DOMAIN jobs : jobs'[j] = jobs[j]
                    /\ \A i \in 1 .. k - 1 :
                         LET job == jobs'[base + i]
                         IN /\ job.status = "queued"
                            /\ job.user_id = user
                            /\ job.duration = requests[i]
                            /\ job.priority = p
                            /\ job.queue_position = Len(local_queues[p]) + i
                            /\ job.estimated_wait_seconds
                                 = _estimate_wait(Len(local_queues[p]) + i, p,
                                      [q \in QueuePriority |->
                                         Len(local_queues[q]) + IF q = p THEN i ELSE 0])
                    /\ local_queues'[p]
                         = local_queues[p]
                             \o [i \in 1 .. k - 1 |-> [id |-> base + i, score |-> now]]
                    /\ \A q \in QueuePriority \ {p} : local_queues'[q] = local_queues[q]
                    /\ IF k <= Len(requests)
                         THEN /\ resp'.result \in {"InsufficientTierError", "QuotaExceededError"}
                              /\ resp'.result = "InsufficientTierError"
                                   <=> requests[k] > tier_config.max_video_duration
                              /\ resp'.job_ids = << >>
                         ELSE /\ resp'.result = "ok"
                              /\ resp'.job_ids = [i \in 1 .. Len(requests) |-> base + i]
                              /\ resp'.total_queued = Len(requests)]_vars

\* a batch of three items was refused at its third item, and the jobs of the
\* first two items are stored, QUEUED and in the queue one behind the other
C38_Witness ==
  /\ resp.op = "batch"
  /\ resp.requests = <<120, 120, 121>>
  /\ resp.result = "InsufficientTierError"
  /\ \E j \in DOMAIN jobs :
       /\ j + 1 \in DOMAIN jobs
       /\ \A i \in {j, j + 1} :
            /\ jobs[i].user_id = resp.user
            /\ jobs[i].status = "queued"
            /\ entries_of(i, jobs[i].priority) = 1
       /\ jobs[j + 1].queue_position = jobs[j].queue_position + 1

\* ------------------------------------------------------------------- C39
\* the entries a job id has in all queues
queue_entries(j) ==
  entries_of(j, "critical") + entries_of(j, "high") + entries_of(j, "normal")

\* the generator is running for job j
generating(j) == worker.pc = "generate" /\ worker.job = j

\* C39: no job id is twice in a queue and retry_count stays 0; a job is
\* enqueued in the step that stores it and never afterwards; the worker takes
\* a job out of its queue only once, to start the generator for it, and the
\* generator is started only for a job that has not been started before; a
\* FAILED job is never changed, enqueued or generated again.
C39_OnceOnly ==
  /\ [](\A j \in DOMAIN jobs : queue_entries(j) <= 1 /\ jobs[j].retry_count = 0)
  /\ [][\A j \in JobIds :
          /\ (j \notin DOMAIN jobs /\ j \in DOMAIN jobs') => queue_entries(j)' = 1
          /\ j \in DOMAIN jobs
               => /\ j \in DOMAIN jobs'
                  /\ queue_entries(j)' <= queue_entries(j)
                  /\ jobs[j].started_at # None
                       => jobs'[j].started_at = jobs[j].started_at
                  /\ (generating(j)' /\ ~generating(j))
                       => /\ queue_entries(j) = 1
                          /\ queue_entries(j)' = 0
                          /\ jobs[j].started_at = None
                          /\ jobs'[j].started_at # None
                  /\ jobs[j].status = "failed"
                       => /\ jobs'[j] = jobs[j]
                          /\ ~generating(j)']_vars

\* a job has FAILED, another job has been generated and COMPLETED, and the
\* worker has found the queues empty since
C39_Witness ==
  /\ \E j \in DOMAIN jobs, i \in DOMAIN jobs :
       /\ jobs[j].status = "failed"
       /\ jobs[i].status = "completed"
       /\ jobs[i].started_at # None
       /\ queue_entries(j) = 0
  /\ worker.pc = "sleep"

====
